---- MODULE Spec2Model ----
(***************************************************************************)
(* PendingStateManager (container-runtime): the queue of locally submitted *)
(* ops awaiting their ack, the stash queue rehydrated at load, Saved Ops,  *)
(* ack correlation, fork detection, replay on reconnect and the staged     *)
(* batch pop.                                                              *)
(*                                                                         *)
(* Encoding of TypeScript values:                                          *)
(*   undefined string/unknown  -> "undefined"                              *)
(*   undefined number          -> UndefinedNum                             *)
(*   undefined batchId         -> NoBatchId (the empty tuple); a batch id  *)
(*                                `${clientId}_[${csn}]` is <<clientId,csn>>*)
(*   undefined runtimeOp       -> UndefinedOp                              *)
(*   a JSON string             -> the sequence of its tokens               *)
(*   connection clientIds are 1..MaxClients, uuid() values are UuidBase+n: *)
(*   uuid() yields an identifier that no record the manager holds carries  *)
(***************************************************************************)
EXTENDS Integers, Sequences, FiniteSets, TLC

\* ------------------------------------------------------------------ bounds
MaxQueue == 3
MaxClients == 2

\* ------------------------------------------------------------ input domains
Contents == {"x1", "x2"}
LocalMetas == {"mdA", "mdB"}
RefSeqs == {0, 1}
CSNs == {1, 2}
SeqNums == {1}
BatchLens == 1..3

UndefinedNum == 0 - 100
UuidBase == 100
NoClient == 0
NoBatchId == <<>>
UndefinedOp == [type |-> "undefined", contents |-> "undefined"]
EmptyGroupedBatch == [type |-> "groupedBatch", contents |-> "[]"]
EmptyBatchMarker == "emptyBatch"
NoOpMetadata == [batch |-> "undefined", batchId |-> NoBatchId]

VARIABLES
    pendingMessages,        \* Deque<IPendingMessage>
    initialMessages,        \* Deque<IPendingMessageFromStash>
    savedOps,               \* IPendingMessage[]
    clientIdFromLastReplay, \* string | undefined
    disposed,               \* disposeOnce.evaluated
    connected,              \* stateHandler.connected()
    clientId,               \* stateHandler.clientId()
    applying,               \* the calls in progress: applyStashedOpsAt calls at their await
    op,                     \* the operation that ran last
    err                     \* what it threw ("none" when it returned)

vars == <<pendingMessages, initialMessages, savedOps, clientIdFromLastReplay,
          disposed, connected, clientId, applying, op, err>>

\* ----------------------------------------------------------------- helpers
RECURSIVE SeqsUpTo(_, _)
SeqsUpTo(S, n) ==
    IF n = 0 THEN {<<>>}
    ELSE LET shorter == SeqsUpTo(S, n - 1)
         IN shorter \cup {Append(s, x) : s \in {t \in shorter : Len(t) = n - 1}, x \in S}

\* serializeOp: JSON.stringify of { type, contents }; an undefined property is
\* not emitted.
serializeOp(runtimeOp) ==
    (IF runtimeOp.type = "undefined" THEN <<>> ELSE <<"type", runtimeOp.type>>)
    \o (IF runtimeOp.contents = "undefined" THEN <<>> ELSE <<"contents", runtimeOp.contents>>)

\* JSON.parse of a string produced by serializeOp.
parseContent(content) ==
    [type |-> IF Len(content) >= 2 /\ content[1] = "type" THEN content[2] ELSE "undefined",
     contents |-> IF Len(content) >= 2 /\ content[Len(content) - 1] = "contents"
                  THEN content[Len(content)] ELSE "undefined"]

isEmptyBatchPendingMessage(message) ==
    LET content == parseContent(message.content)
    IN content.type = "groupedBatch" /\ content.contents = "[]"

\* The inbound message carries more than type and contents (sequenceNumber, ...);
\* only these two are serialized, in this order.
buildPendingMessageContent(message) ==
    serializeOp([type |-> message.type, contents |-> message.contents])

toSerializableForm(message) ==
    [message EXCEPT !.localOpMetadata = "undefined", !.runtimeOp = UndefinedOp]

hasTypicalRuntimeOp(message) ==
    message.runtimeOp # UndefinedOp /\ message.runtimeOp.type # "groupedBatch"

generateBatchId(originalClientId, batchStartCsn) == <<originalClientId, batchStartCsn>>

\* getEffectiveBatchId of a pending message: the stamped batch id, else the one
\* generated from its batchInfo.
getEffectiveBatchId(pendingMessage) ==
    IF pendingMessage.opMetadata.batchId # NoBatchId
    THEN pendingMessage.opMetadata.batchId
    ELSE generateBatchId(pendingMessage.batchInfo.clientId,
                         pendingMessage.batchInfo.batchStartCsn)

\* getEffectiveBatchId of a BatchStartInfo.
getEffectiveBatchIdOfStart(batchStart) ==
    IF batchStart.batchId # NoBatchId
    THEN batchStart.batchId
    ELSE generateBatchId(batchStart.clientId, batchStart.batchStartCsn)

\* The manager's own mutable state (pm: pendingMessages, im: initialMessages,
\* so: savedOps, lr: clientIdFromLastReplay) together with what the running call
\* has produced so far: err what it threw, ret what it returns, out its
\* reSubmitBatch calls, cb its callback invocations, log its telemetry events.
Cur ==
    [pm |-> pendingMessages, im |-> initialMessages, so |-> savedOps,
     lr |-> clientIdFromLastReplay,
     err |-> "none", ret |-> <<>>, out |-> <<>>, cb |-> <<>>, log |-> <<>>,
     tag |-> <<>>]

\* uuid(): an identifier carried by no record of the manager.
uuid(st) ==
    LET used == {st.pm[i].batchInfo.clientId : i \in 1..Len(st.pm)}
                \cup {st.im[i].batchInfo.clientId : i \in 1..Len(st.im)}
                \cup {st.so[i].batchInfo.clientId : i \in 1..Len(st.so)}
    IN CHOOSE u \in (UuidBase + 1)..(UuidBase + Cardinality(used) + 1) :
            u \notin used /\ \A v \in (UuidBase + 1)..(u - 1) : v \in used

Commit(name, st) ==
    /\ pendingMessages' = st.pm
    /\ initialMessages' = st.im
    /\ savedOps' = st.so
    /\ clientIdFromLastReplay' = st.lr
    /\ op' = name
    /\ err' = st.err

Throw(st, e) == [st EXCEPT !.err = e]

\* ------------------------------------------------------------ onFlushBatch
\* A LocalBatchMessage as the outbox hands it over.
LocalBatchMessage(contents, md, refSeq, batchFlag, batchId) ==
    [runtimeOp |-> [type |-> "op", contents |-> contents],
     referenceSequenceNumber |-> refSeq,
     localOpMetadata |-> md,
     metadata |-> [batch |-> batchFlag, batchId |-> batchId]]

LocalEmptyBatchPlaceholder(refSeq, batchId) ==
    [runtimeOp |-> EmptyGroupedBatch,
     referenceSequenceNumber |-> refSeq,
     localOpMetadata |-> EmptyBatchMarker,
     metadata |-> [batch |-> "undefined", batchId |-> batchId]]

pendingMessageOf(message, batchInfo) ==
    [referenceSequenceNumber |-> message.referenceSequenceNumber,
     content |-> serializeOp(message.runtimeOp),
     runtimeOp |-> message.runtimeOp,
     localOpMetadata |-> message.localOpMetadata,
     opMetadata |-> message.metadata,
     sequenceNumber |-> UndefinedNum,
     batchInfo |-> batchInfo]

\* onFlushBatch pushing at the front of the queue.
flushBatch_Front(st, batch, clientSequenceNumber, staged, ignoreBatchId, curClientId) ==
    LET batchWasSent == clientSequenceNumber # UndefinedNum
        cid == IF batchWasSent THEN curClientId ELSE uuid(st)
        batchStartCsn == IF batchWasSent THEN clientSequenceNumber ELSE 0 - 1
        batchInfo == [clientId |-> cid, batchStartCsn |-> batchStartCsn,
                      length |-> Len(batch), ignoreBatchId |-> ignoreBatchId,
                      staged |-> staged]
    IN IF batchWasSent /\ staged THEN Throw(st, "assert 0xb84")
       ELSE IF cid = NoClient THEN Throw(st, "assert 0xa33")
       ELSE [st EXCEPT
                !.pm = [i \in 1..Len(batch) |-> pendingMessageOf(batch[i], batchInfo)] \o st.pm]

\* onFlushBatch without the assert that a sent batch is not staged.
flushBatch_SentStaged(st, batch, clientSequenceNumber, staged, ignoreBatchId, curClientId) ==
    LET batchWasSent == clientSequenceNumber # UndefinedNum
        cid == IF batchWasSent THEN curClientId ELSE uuid(st)
        batchStartCsn == IF batchWasSent THEN clientSequenceNumber ELSE 0 - 1
        batchInfo == [clientId |-> cid, batchStartCsn |-> batchStartCsn,
                      length |-> Len(batch), ignoreBatchId |-> ignoreBatchId,
                      staged |-> staged]
    IN IF cid = NoClient THEN Throw(st, "assert 0xa33")
       ELSE [st EXCEPT
                !.pm = st.pm \o [i \in 1..Len(batch) |-> pendingMessageOf(batch[i], batchInfo)]]

\* onFlushBatch recording a staged batch under the next CSN in place of -1.
flushBatch_StagedCsn(st, batch, clientSequenceNumber, staged, ignoreBatchId, curClientId) ==
    LET batchWasSent == clientSequenceNumber # UndefinedNum
        cid == IF batchWasSent THEN curClientId ELSE uuid(st)
        batchStartCsn == IF batchWasSent THEN clientSequenceNumber
                         ELSE IF staged THEN 1 ELSE 0 - 1
        batchInfo == [clientId |-> cid, batchStartCsn |-> batchStartCsn,
                      length |-> Len(batch), ignoreBatchId |-> ignoreBatchId,
                      staged |-> staged]
    IN IF batchWasSent /\ staged THEN Throw(st, "assert 0xb84")
       ELSE IF cid = NoClient THEN Throw(st, "assert 0xa33")
       ELSE [st EXCEPT
                !.pm = st.pm \o [i \in 1..Len(batch) |-> pendingMessageOf(batch[i], batchInfo)]]

flushBatch(st, batch, clientSequenceNumber, staged, ignoreBatchId, curClientId) ==
    LET batchWasSent == clientSequenceNumber # UndefinedNum
        cid == IF batchWasSent THEN curClientId ELSE uuid(st)
        batchStartCsn == IF batchWasSent THEN clientSequenceNumber ELSE 0 - 1
        batchInfo == [clientId |-> cid, batchStartCsn |-> batchStartCsn,
                      length |-> Len(batch), ignoreBatchId |-> ignoreBatchId,
                      staged |-> staged]
    IN IF batchWasSent /\ staged THEN Throw(st, "assert 0xb84")
       ELSE IF cid = NoClient THEN Throw(st, "assert 0xa33")
       ELSE [st EXCEPT
                !.pm = st.pm \o [i \in 1..Len(batch) |-> pendingMessageOf(batch[i], batchInfo)]]

flushEmptyBatch(st, placeholder, clientSequenceNumber, staged, curClientId) ==
    flushBatch(st, <<placeholder>>, clientSequenceNumber, staged, FALSE, curClientId)

\* ------------------------------------------------------- inbound correlator
\* An InboundSequencedContainerRuntimeMessage.
InboundMessage(contents, sequenceNumber) ==
    [type |-> "op", contents |-> contents, sequenceNumber |-> sequenceNumber]

BatchStartInfo(batchId, cid, batchStartCsn, keySeq) ==
    [batchId |-> batchId, clientId |-> cid, batchStartCsn |-> batchStartCsn,
     keyMessage |-> [sequenceNumber |-> keySeq]]

NoBatchStart == BatchStartInfo(NoBatchId, NoClient, UndefinedNum, UndefinedNum)

\* InboundMessageResult: "fullBatch" has messages, batchStart and length;
\* "batchStartingMessage" has batchStart and nextMessage; "nextBatchMessage" has
\* nextMessage only.  messages holds nextMessage for the last two.
InboundFullBatch(messages, batchStart) ==
    [type |-> "fullBatch", messages |-> messages, batchStart |-> batchStart,
     length |-> Len(messages)]

InboundBatchStartingMessage(nextMessage, batchStart) ==
    [type |-> "batchStartingMessage", messages |-> <<nextMessage>>,
     batchStart |-> batchStart, length |-> UndefinedNum]

InboundNextBatchMessage(nextMessage) ==
    [type |-> "nextBatchMessage", messages |-> <<nextMessage>>,
     batchStart |-> NoBatchStart, length |-> UndefinedNum]

hasBatchStart(inbound) == inbound.type # "nextBatchMessage"

\* processNextPendingMessage taking the pending message off the back of the
\* queue instead of the front.
processNextPendingMessage_Back(st, sequenceNumber, message) ==
    IF st.pm = <<>> THEN Throw(st, "assert 0x169")
    ELSE LET pendingMessage == [st.pm[Len(st.pm)] EXCEPT !.sequenceNumber = sequenceNumber]
             st1 == [st EXCEPT !.so = Append(st.so, toSerializableForm(pendingMessage)),
                               !.pm = SubSeq(st.pm, 1, Len(st.pm) - 1)]
         IN IF message # <<>> /\ pendingMessage.content # buildPendingMessageContent(message[1])
            THEN Throw([st1 EXCEPT !.log = Append(st1.log, "unexpectedAckReceived")],
                       "DataProcessingError: pending local message content mismatch")
            ELSE [st1 EXCEPT !.ret = Append(st1.ret, pendingMessage.localOpMetadata)]

\* processNextPendingMessage saving the pending message as it is in the queue.
processNextPendingMessage_SaveAsIs(st, sequenceNumber, message) ==
    IF st.pm = <<>> THEN Throw(st, "assert 0x169")
    ELSE LET pendingMessage == Head(st.pm)
             st1 == [st EXCEPT !.so = Append(st.so, pendingMessage), !.pm = Tail(st.pm)]
         IN IF message # <<>> /\ pendingMessage.content # buildPendingMessageContent(message[1])
            THEN Throw([st1 EXCEPT !.log = Append(st1.log, "unexpectedAckReceived")],
                       "DataProcessingError: pending local message content mismatch")
            ELSE [st1 EXCEPT !.ret = Append(st1.ret, pendingMessage.localOpMetadata)]

\* processNextPendingMessage comparing the content first and leaving the queue
\* and the saved ops alone on a mismatch.
processNextPendingMessage_CompareFirst(st, sequenceNumber, message) ==
    IF st.pm = <<>> THEN Throw(st, "assert 0x169")
    ELSE LET pendingMessage == [Head(st.pm) EXCEPT !.sequenceNumber = sequenceNumber]
         IN IF message # <<>> /\ pendingMessage.content # buildPendingMessageContent(message[1])
            THEN Throw([st EXCEPT !.log = Append(st.log, "unexpectedAckReceived")],
                       "DataProcessingError: pending local message content mismatch")
            ELSE [st EXCEPT !.so = Append(st.so, toSerializableForm(pendingMessage)),
                            !.pm = Tail(st.pm),
                            !.ret = Append(st.ret, pendingMessage.localOpMetadata)]

\* processNextPendingMessage without the content comparison.
processNextPendingMessage_NoCompare(st, sequenceNumber, message) ==
    IF st.pm = <<>> THEN Throw(st, "assert 0x169")
    ELSE LET pendingMessage == [Head(st.pm) EXCEPT !.sequenceNumber = sequenceNumber]
             st1 == [st EXCEPT !.so = Append(st.so, toSerializableForm(pendingMessage)),
                               !.pm = Tail(st.pm)]
         IN [st1 EXCEPT !.ret = Append(st1.ret, pendingMessage.localOpMetadata)]

\* message = <<>> is the call without the optional message (the empty batch).
\* The metadata it returns is appended to st.ret.
processNextPendingMessage(st, sequenceNumber, message) ==
    IF st.pm = <<>> THEN Throw(st, "assert 0x169")
    ELSE LET pendingMessage == [Head(st.pm) EXCEPT !.sequenceNumber = sequenceNumber]
             st1 == [st EXCEPT !.so = Append(st.so, toSerializableForm(pendingMessage)),
                               !.pm = Tail(st.pm)]
         IN IF message # <<>> /\ pendingMessage.content # buildPendingMessageContent(message[1])
            THEN Throw([st1 EXCEPT !.log = Append(st1.log, "unexpectedAckReceived")],
                       "DataProcessingError: pending local message content mismatch")
            ELSE [st1 EXCEPT !.ret = Append(st1.ret, pendingMessage.localOpMetadata)]

\* onLocalBatchBegin letting a staged front pending message through.
onLocalBatchBegin_AcceptStaged(st, batchStart, batchLength) ==
    IF st.pm = <<>> THEN Throw(st, "assert 0xa21")
    ELSE LET pendingMessage == Head(st.pm)
             skipLengthCheck == pendingMessage.batchInfo.length = 0 - 1
                                \/ batchLength = UndefinedNum
             expectedPendingBatchLength == IF batchLength = 0 THEN 1 ELSE batchLength
         IN IF \/ pendingMessage.batchInfo.batchStartCsn # batchStart.batchStartCsn
               \/ (~skipLengthCheck
                   /\ pendingMessage.batchInfo.length # expectedPendingBatchLength)
               \/ pendingMessage.opMetadata.batchId # batchStart.batchId
            THEN [st EXCEPT !.log = Append(st.log, "BatchInfoMismatch")]
            ELSE st

\* onLocalBatchBegin throwing on a batch info mismatch.
onLocalBatchBegin_Throw(st, batchStart, batchLength) ==
    IF st.pm = <<>> THEN Throw(st, "assert 0xa21")
    ELSE LET pendingMessage == Head(st.pm)
             skipLengthCheck == pendingMessage.batchInfo.length = 0 - 1
                                \/ batchLength = UndefinedNum
             expectedPendingBatchLength == IF batchLength = 0 THEN 1 ELSE batchLength
         IN IF pendingMessage.batchInfo.staged THEN Throw(st, "assert 0xb85")
            ELSE IF \/ pendingMessage.batchInfo.batchStartCsn # batchStart.batchStartCsn
                    \/ (~skipLengthCheck
                        /\ pendingMessage.batchInfo.length # expectedPendingBatchLength)
                    \/ pendingMessage.opMetadata.batchId # batchStart.batchId
                 THEN Throw([st EXCEPT !.log = Append(st.log, "BatchInfoMismatch")],
                            "DataProcessingError: BatchInfoMismatch")
                 ELSE st

onLocalBatchBegin(st, batchStart, batchLength) ==
    IF st.pm = <<>> THEN Throw(st, "assert 0xa21")
    ELSE LET pendingMessage == Head(st.pm)
             skipLengthCheck == pendingMessage.batchInfo.length = 0 - 1
                                \/ batchLength = UndefinedNum
             expectedPendingBatchLength == IF batchLength = 0 THEN 1 ELSE batchLength
             pendingBatchId == pendingMessage.opMetadata.batchId
             inboundBatchId == batchStart.batchId
         IN IF pendingMessage.batchInfo.staged THEN Throw(st, "assert 0xb85")
            ELSE IF \/ pendingMessage.batchInfo.batchStartCsn # batchStart.batchStartCsn
                    \/ (~skipLengthCheck
                        /\ pendingMessage.batchInfo.length # expectedPendingBatchLength)
                    \/ pendingBatchId # inboundBatchId
                 THEN [st EXCEPT !.log = Append(st.log, "BatchInfoMismatch")]
                 ELSE st

\* messages.map(...): left to right, stopping at the first throw.
RECURSIVE processEach(_, _)
processEach(st, messages) ==
    IF messages = <<>> \/ st.err # "none" THEN st
    ELSE processEach(
            processNextPendingMessage(st, Head(messages).sequenceNumber, <<Head(messages)>>),
            Tail(messages))

\* The returned array pairs messages[k] with ret[k]; a throw returns nothing.
zip(messages, st) ==
    IF st.err # "none" THEN [st EXCEPT !.ret = <<>>]
    ELSE [st EXCEPT !.ret = [k \in 1..Len(messages) |->
                                [message |-> messages[k], localOpMetadata |-> st.ret[k]]]]

\* processPendingLocalMessages without the empty batch marker assertion.
processPendingLocalMessages_NoMarker(st, inbound) ==
    LET st1 == IF hasBatchStart(inbound)
               THEN onLocalBatchBegin(st, inbound.batchStart, inbound.length)
               ELSE st
    IN IF st1.err # "none" THEN st1
       ELSE IF inbound.length = 0
       THEN LET st2 == processNextPendingMessage(
                           st1, inbound.batchStart.keyMessage.sequenceNumber, <<>>)
            IN IF st2.err # "none" THEN st2 ELSE [st2 EXCEPT !.ret = <<>>]
       ELSE zip(inbound.messages, processEach(st1, inbound.messages))

processPendingLocalMessages(st, inbound) ==
    LET st1 == IF hasBatchStart(inbound)
               THEN onLocalBatchBegin(st, inbound.batchStart, inbound.length)
               ELSE st
    IN IF st1.err # "none" THEN st1
       ELSE IF inbound.length = 0
       THEN LET st2 == processNextPendingMessage(
                           st1, inbound.batchStart.keyMessage.sequenceNumber, <<>>)
            IN IF st2.err # "none" THEN st2
               ELSE IF st2.ret[1] # EmptyBatchMarker
               THEN Throw([st2 EXCEPT !.ret = <<>>], "assert 0xa20")
               ELSE [st2 EXCEPT !.ret = <<>>]
       ELSE zip(inbound.messages, processEach(st1, inbound.messages))

\* The index of the first pending message, whatever its batchInfo.ignoreBatchId.
firstIndexUsingBatchId_Front(pm) == IF pm = <<>> THEN 0 ELSE 1

\* The index of the first pending message whose batchInfo.ignoreBatchId is not
\* true, 0 when there is none (findIndex's -1).
firstIndexUsingBatchId(pm) ==
    LET using == {i \in 1..Len(pm) : pm[i].batchInfo.ignoreBatchId # TRUE}
    IN IF using = {} THEN 0 ELSE CHOOSE i \in using : \A j \in using : i <= j

\* remoteBatchMatchesPendingBatch comparing with every pending message that uses
\* batch ids.
remoteBatchMatchesPendingBatch_Any(st, remoteBatchStart) ==
    \E i \in 1..Len(st.pm) :
        /\ st.pm[i].batchInfo.ignoreBatchId # TRUE
        /\ getEffectiveBatchId(st.pm[i]) = getEffectiveBatchIdOfStart(remoteBatchStart)

\* remoteBatchMatchesPendingBatch comparing with the front pending message,
\* whatever its ignoreBatchId.
remoteBatchMatchesPendingBatch_Front(st, remoteBatchStart) ==
    IF st.pm = <<>> THEN FALSE
    ELSE getEffectiveBatchId(Head(st.pm)) = getEffectiveBatchIdOfStart(remoteBatchStart)

remoteBatchMatchesPendingBatch(st, remoteBatchStart) ==
    LET i == firstIndexUsingBatchId(st.pm)
    IN IF i = 0 THEN FALSE
       ELSE getEffectiveBatchId(st.pm[i]) = getEffectiveBatchIdOfStart(remoteBatchStart)

\* processInboundMessages matching every inbound with the pending queue, the
\* local flag unread.
processInbound_RemoteAsLocal(st, inbound, local) ==
    processPendingLocalMessages(st, inbound)

processInbound(st, inbound, local) ==
    IF local THEN processPendingLocalMessages(st, inbound)
    ELSE IF hasBatchStart(inbound) /\ remoteBatchMatchesPendingBatch(st, inbound.batchStart)
    THEN Throw(st, "DataProcessingError: Forked Container Error")
    ELSE [st EXCEPT !.ret = [k \in 1..Len(inbound.messages) |->
                                [message |-> inbound.messages[k],
                                 localOpMetadata |-> "undefined"]]]

\* --------------------------------------------------- resubmission coordinator
PendingMessageResubmitData(pendingMessage) ==
    [runtimeOp |-> pendingMessage.runtimeOp,
     localOpMetadata |-> pendingMessage.localOpMetadata,
     opMetadata |-> pendingMessage.opMetadata]

\* What the resubmission sink does with one reSubmitBatch call.  The sink is the
\* runtime: it rebases the ops and flushes the result, which re-enters
\* onFlushBatch / onFlushEmptyBatch before reSubmitBatch returns.
\*   "none"   nothing is flushed
\*   "resend" the same ops are flushed again, the batch id stamped on the first
\*   "empty"  the batch became empty: the placeholder is flushed
\* A batch is sent (has a CSN) when connected and not staged.
SinkModes == {"none", "resend", "empty"}

sinkFlush(st, batch, metadata, sink) ==
    LET csn == IF sink.connected /\ ~metadata.staged
               THEN sink.csn + Len(st.out) ELSE UndefinedNum
        flag(i) == IF Len(batch) = 1 THEN "undefined"
                   ELSE IF i = 1 THEN "true"
                   ELSE IF i = Len(batch) THEN "false" ELSE "undefined"
        again == [i \in 1..Len(batch) |->
                    [runtimeOp |-> batch[i].runtimeOp,
                     referenceSequenceNumber |-> sink.refSeq,
                     localOpMetadata |-> batch[i].localOpMetadata,
                     metadata |-> [batch |-> flag(i),
                                   batchId |-> IF i = 1 THEN metadata.batchId
                                               ELSE NoBatchId]]]
    IN IF sink.mode = "none" THEN st
       ELSE IF sink.mode = "empty" \/ batch = <<>>
       THEN flushEmptyBatch(st, LocalEmptyBatchPlaceholder(sink.refSeq, metadata.batchId),
                            csn, metadata.staged, sink.clientId)
       ELSE flushBatch(st, again, csn, metadata.staged,
                       metadata.batchId = NoBatchId, sink.clientId)

\* One reSubmitBatch call handing every batch over as not staged.
reSubmitBatch_NotStaged(st, batch, metadata, sink) ==
    LET unstaged == [metadata EXCEPT !.staged = FALSE]
        st1 == sinkFlush(st, batch, unstaged, sink)
    IN [st1 EXCEPT !.out = Append(st.out,
                                  [batch |-> batch, metadata |-> unstaged,
                                   flushed |-> SubSeq(st1.pm, Len(st.pm) + 1, Len(st1.pm))])]

\* One reSubmitBatch call.  st.out records the call: its two arguments and, as
\* flushed, the pending messages the sink's flush pushed before it returned.
reSubmitBatch(st, batch, metadata, sink) ==
    LET st1 == sinkFlush(st, batch, metadata, sink)
    IN [st1 EXCEPT !.out = Append(st.out,
                                  [batch |-> batch, metadata |-> metadata,
                                   flushed |-> SubSeq(st1.pm, Len(st.pm) + 1, Len(st1.pm))])]

\* The inner while loop ending the batch at its first message.
collectBatch_Split(st, remaining, pendingMessage, batch) ==
    [st |-> st, remaining |-> remaining,
     batch |-> Append(batch, PendingMessageResubmitData(pendingMessage))]

\* The inner while loop taking every message counted for the pass as the batch,
\* whatever its flag.
collectBatch_TakeAll(st, remaining, pendingMessage, batch) ==
    [st |-> [st EXCEPT !.pm = SubSeq(st.pm, remaining + 1, Len(st.pm))],
     remaining |-> 0,
     batch |-> <<PendingMessageResubmitData(pendingMessage)>>
               \o [i \in 1..remaining |-> PendingMessageResubmitData(st.pm[i])]]

\* The inner while loop: pendingMessage has been taken off the queue, batch holds
\* the messages of the batch before it.
RECURSIVE collectBatch(_, _, _, _)
collectBatch(st, remaining, pendingMessage, batch) ==
    IF ~hasTypicalRuntimeOp(pendingMessage)
    THEN [st |-> Throw(st, "assert 0xb88"), remaining |-> remaining, batch |-> batch]
    ELSE LET batch1 == Append(batch, PendingMessageResubmitData(pendingMessage))
         IN IF pendingMessage.opMetadata.batch = "false"
            THEN [st |-> st, remaining |-> remaining, batch |-> batch1]
            ELSE IF ~(remaining > 0)
            THEN [st |-> Throw(st, "assert 0x555"), remaining |-> remaining, batch |-> batch1]
            ELSE LET next == Head(st.pm)
                     st1 == [st EXCEPT !.pm = Tail(st.pm)]
                 IN IF next.opMetadata.batch = "true"
                    THEN [st |-> Throw(st1, "assert 0x556"),
                          remaining |-> remaining - 1, batch |-> batch1]
                    ELSE collectBatch(st1, remaining - 1, next, batch1)

\* The outer while loop.
RECURSIVE replayLoop(_, _, _, _, _)
replayLoop(st, remainingPendingMessagesCount, seenStagedBatch, options, sink) ==
    IF ~(remainingPendingMessagesCount > 0) \/ st.err # "none" THEN st
    ELSE
    LET shifted == Head(st.pm)
        st1 == [st EXCEPT !.pm = Tail(st.pm)]
        remaining == remainingPendingMessagesCount - 1
        requeue == options.committingStagedBatches /\ ~shifted.batchInfo.staged
        pendingMessage == IF options.committingStagedBatches
                          THEN [shifted EXCEPT !.batchInfo.staged = FALSE]
                          ELSE shifted
        seen == seenStagedBatch \/ options.committingStagedBatches
        batchMetadataFlag == pendingMessage.opMetadata.batch
        batchId == IF pendingMessage.batchInfo.ignoreBatchId THEN NoBatchId
                   ELSE getEffectiveBatchId(pendingMessage)
        metadata == [batchId |-> batchId, staged |-> pendingMessage.batchInfo.staged,
                     squash |-> options.squash]
    IN IF requeue
       THEN IF seenStagedBatch THEN Throw(st1, "assert 0xb86")
            ELSE replayLoop([st1 EXCEPT !.pm = Append(st1.pm, shifted)],
                            remaining, seenStagedBatch, options, sink)
       ELSE IF batchMetadataFlag = "false" THEN Throw(st1, "assert 0x41b")
       ELSE IF pendingMessage.localOpMetadata = EmptyBatchMarker
       THEN replayLoop(reSubmitBatch(st1, <<>>, metadata, sink),
                       remaining, seen, options, sink)
       ELSE IF ~hasTypicalRuntimeOp(pendingMessage) THEN Throw(st1, "assert 0xb87")
       ELSE IF batchMetadataFlag = "undefined"
       THEN replayLoop(
                reSubmitBatch(st1, <<PendingMessageResubmitData(pendingMessage)>>,
                              metadata, sink),
                remaining, seen, options, sink)
       ELSE IF ~(remaining > 0) THEN Throw(st1, "assert 0x554")
       ELSE LET got == collectBatch(st1, remaining, pendingMessage, <<>>)
            IN IF got.st.err # "none" THEN got.st
               ELSE replayLoop(reSubmitBatch(got.st, got.batch, metadata, sink),
                               got.remaining, seen, options, sink)

\* replayPendingStates replaying one message fewer than were pending.
replayPending_ShortCount(st, options, sink, active) ==
    IF ~(sink.connected \/ options.committingStagedBatches) THEN Throw(st, "assert 0x172")
    ELSE IF ~options.committingStagedBatches /\ ~(st.lr # sink.clientId)
    THEN Throw(st, "assert 0x173")
    ELSE LET st1 == [st EXCEPT !.lr = sink.clientId]
         IN IF st1.im # <<>> THEN Throw(st1, "assert 0x174")
            ELSE LET initialPendingMessagesCount == Len(st1.pm)
                     st2 == replayLoop(st1, Len(st1.pm) - 1, FALSE, options, sink)
                 IN IF st2.err # "none" THEN st2
                    ELSE [st2 EXCEPT
                            !.so = <<>>,
                            !.log = IF active
                                    THEN Append(st2.log,
                                                <<"PendingStatesReplayed",
                                                  initialPendingMessagesCount>>)
                                    ELSE st2.log]


\* replayPendingStates without the check of the clientId of the last replay.
replayPending_NoClientIdCheck(st, options, sink, active) ==
    IF ~(sink.connected \/ options.committingStagedBatches) THEN Throw(st, "assert 0x172")
    ELSE LET st1 == [st EXCEPT !.lr = sink.clientId]
         IN IF st1.im # <<>> THEN Throw(st1, "assert 0x174")
            ELSE LET initialPendingMessagesCount == Len(st1.pm)
                     st2 == replayLoop(st1, Len(st1.pm), FALSE, options, sink)
                 IN IF st2.err # "none" THEN st2
                    ELSE [st2 EXCEPT
                            !.so = <<>>,
                            !.log = IF active
                                    THEN Append(st2.log,
                                                <<"PendingStatesReplayed",
                                                  initialPendingMessagesCount>>)
                                    ELSE st2.log]


\* replayPendingStates leaving the saved ops as they are.
replayPending_KeepSaved(st, options, sink, active) ==
    IF ~(sink.connected \/ options.committingStagedBatches) THEN Throw(st, "assert 0x172")
    ELSE IF ~options.committingStagedBatches /\ ~(st.lr # sink.clientId)
    THEN Throw(st, "assert 0x173")
    ELSE LET st1 == [st EXCEPT !.lr = sink.clientId]
         IN IF st1.im # <<>> THEN Throw(st1, "assert 0x174")
            ELSE replayLoop(st1, Len(st1.pm), FALSE, options, sink)

\* replayPendingStates without its checks of the connection and of the stash
\* queue.
replayPending_Unchecked(st, options, sink, active) ==
    IF ~options.committingStagedBatches /\ ~(st.lr # sink.clientId)
    THEN Throw(st, "assert 0x173")
    ELSE LET st2 == replayLoop([st EXCEPT !.lr = sink.clientId], Len(st.pm), FALSE,
                               options, sink)
         IN IF st2.err # "none" THEN st2 ELSE [st2 EXCEPT !.so = <<>>]

\* replayPendingStates resubmitting every batch when committing staged batches.
replayPending_CommitAll(st, options, sink, active) ==
    IF ~(sink.connected \/ options.committingStagedBatches) THEN Throw(st, "assert 0x172")
    ELSE IF ~options.committingStagedBatches /\ ~(st.lr # sink.clientId)
    THEN Throw(st, "assert 0x173")
    ELSE LET st1 == [st EXCEPT !.lr = sink.clientId]
         IN IF st1.im # <<>> THEN Throw(st1, "assert 0x174")
            ELSE LET initialPendingMessagesCount == Len(st1.pm)
                     st2 == replayLoop(st1, Len(st1.pm), FALSE,
                                       [options EXCEPT !.committingStagedBatches = FALSE], sink)
                 IN IF st2.err # "none" THEN st2
                    ELSE [st2 EXCEPT
                            !.so = <<>>,
                            !.log = IF active
                                    THEN Append(st2.log,
                                                <<"PendingStatesReplayed",
                                                  initialPendingMessagesCount>>)
                                    ELSE st2.log]


\* options = [committingStagedBatches, squash]; active is what
\* stateHandler.isActiveConnection() answers at the end of the pass.
\* replayPendingStates recording the clientId after the check of the stash queue.
replayPending_RecordAfterChecks(st, options, sink, active) ==
    IF ~(sink.connected \/ options.committingStagedBatches) THEN Throw(st, "assert 0x172")
    ELSE IF ~options.committingStagedBatches /\ ~(st.lr # sink.clientId)
    THEN Throw(st, "assert 0x173")
    ELSE IF st.im # <<>> THEN Throw(st, "assert 0x174")
    ELSE LET st1 == [st EXCEPT !.lr = sink.clientId]
             initialPendingMessagesCount == Len(st1.pm)
             st2 == replayLoop(st1, Len(st1.pm), FALSE, options, sink)
         IN IF st2.err # "none" THEN st2
            ELSE [st2 EXCEPT
                    !.so = <<>>,
                    !.log = IF active
                            THEN Append(st2.log,
                                        <<"PendingStatesReplayed",
                                          initialPendingMessagesCount>>)
                            ELSE st2.log]

\* replayPendingStates reporting the number of messages it handed to
\* reSubmitBatch.
replayPending_CountReplayed(st, options, sink, active) ==
    IF ~(sink.connected \/ options.committingStagedBatches) THEN Throw(st, "assert 0x172")
    ELSE IF ~options.committingStagedBatches /\ ~(st.lr # sink.clientId)
    THEN Throw(st, "assert 0x173")
    ELSE LET st1 == [st EXCEPT !.lr = sink.clientId]
         IN IF st1.im # <<>> THEN Throw(st1, "assert 0x174")
            ELSE LET st2 == replayLoop(st1, Len(st1.pm), FALSE, options, sink)
                     replayed == [k \in 1..Len(st2.out) |->
                                     IF st2.out[k].batch = <<>> THEN 1
                                     ELSE Len(st2.out[k].batch)]
                     total[k \in 0..Len(replayed)] ==
                         IF k = 0 THEN 0 ELSE total[k - 1] + replayed[k]
                 IN IF st2.err # "none" THEN st2
                    ELSE [st2 EXCEPT
                            !.so = <<>>,
                            !.log = IF active
                                    THEN Append(st2.log,
                                                <<"PendingStatesReplayed",
                                                  total[Len(replayed)]>>)
                                    ELSE st2.log]

replayPending(st, options, sink, active) ==
    IF ~(sink.connected \/ options.committingStagedBatches) THEN Throw(st, "assert 0x172")
    ELSE IF ~options.committingStagedBatches /\ ~(st.lr # sink.clientId)
    THEN Throw(st, "assert 0x173")
    ELSE LET st1 == [st EXCEPT !.lr = sink.clientId]
         IN IF st1.im # <<>> THEN Throw(st1, "assert 0x174")
            ELSE LET initialPendingMessagesCount == Len(st1.pm)
                     st2 == replayLoop(st1, Len(st1.pm), FALSE, options, sink)
                 IN IF st2.err # "none" THEN st2
                    ELSE [st2 EXCEPT
                            !.so = <<>>,
                            !.log = IF active
                                    THEN Append(st2.log,
                                                <<"PendingStatesReplayed",
                                                  initialPendingMessagesCount>>)
                                    ELSE st2.log]

\* ------------------------------------ pendingMessagesCount, hasPendingMessages
\* The count leaving out the stash queue.
pendingMessagesCount_PendingOnly(st) == Len(st.pm)

\* this.pendingMessages.length + this.initialMessages.length
pendingMessagesCount(st) == Len(st.pm) + Len(st.im)

hasPendingMessages(st) == pendingMessagesCount(st) # 0

\* ------------------------------------- minimumPendingMessageSequenceNumber
\* pendingMessages.peekFront()?.referenceSequenceNumber
minimumPendingMessageSequenceNumber(st) ==
    IF st.pm = <<>> THEN UndefinedNum ELSE Head(st.pm).referenceSequenceNumber

\* ------------------------------------------------------------ getLocalState
SelectSaved(ops, after) == SelectSeq(ops, LAMBDA message : message.sequenceNumber > after)

\* getLocalState returning every saved op, whatever the snapshot.
localState_Unfiltered(st, snapshotSequenceNumber) ==
    IF st.im # <<>> THEN Throw(st, "assert 0x2e9")
    ELSE IF /\ snapshotSequenceNumber # UndefinedNum
            /\ \E i \in 1..Len(st.pm) :
                  st.pm[i].referenceSequenceNumber < snapshotSequenceNumber
    THEN Throw(st, "LoggingError: trying to stash ops older than our latest snapshot")
    ELSE [st EXCEPT !.ret = st.so \o [i \in 1..Len(st.pm) |-> toSerializableForm(st.pm[i])]]

\* getLocalState(snapshotSequenceNumber): st.ret is the pendingStates returned.
localState(st, snapshotSequenceNumber) ==
    IF st.im # <<>> THEN Throw(st, "assert 0x2e9")
    ELSE IF \E i \in 1..Len(st.so) : st.so[i].sequenceNumber = UndefinedNum
    THEN Throw(st, "assert 0x97c")
    ELSE LET newSavedOps ==
                 SelectSaved(st.so, IF snapshotSequenceNumber = UndefinedNum THEN 0
                                    ELSE snapshotSequenceNumber)
         IN IF /\ snapshotSequenceNumber # UndefinedNum
               /\ \E i \in 1..Len(st.pm) :
                     st.pm[i].referenceSequenceNumber < snapshotSequenceNumber
            THEN Throw(st, "LoggingError: trying to stash ops older than our latest snapshot")
            ELSE [st EXCEPT !.ret = newSavedOps
                                    \o [i \in 1..Len(st.pm) |-> toSerializableForm(st.pm[i])]]

\* ----------------------------------------------------------- staged-batch pop
\* The loop of popStagedBatches invoking the callbacks first-in-first-out.
RECURSIVE popStaged_Fifo(_)
popStaged_Fifo(st) ==
    IF st.pm = <<>> THEN st
    ELSE LET stagedMessage == st.pm[Len(st.pm)]
         IN IF stagedMessage.batchInfo.staged = TRUE
            THEN popStaged_Fifo([st EXCEPT
                    !.pm = SubSeq(st.pm, 1, Len(st.pm) - 1),
                    !.cb = IF hasTypicalRuntimeOp(stagedMessage)
                           THEN <<stagedMessage>> \o st.cb ELSE st.cb])
            ELSE st

RECURSIVE popStaged(_)
popStaged(st) ==
    IF st.pm = <<>> THEN st
    ELSE LET stagedMessage == st.pm[Len(st.pm)]
         IN IF stagedMessage.batchInfo.staged = TRUE
            THEN popStaged([st EXCEPT
                    !.pm = SubSeq(st.pm, 1, Len(st.pm) - 1),
                    !.cb = IF hasTypicalRuntimeOp(stagedMessage)
                           THEN Append(st.cb, stagedMessage) ELSE st.cb])
            ELSE st

\* popStagedBatches without its final check.
popStagedBatchesOn_NoFinalCheck(st) == popStaged(st)

popStagedBatchesOn(st) ==
    LET st1 == popStaged(st)
    IN IF \A i \in 1..Len(st1.pm) : st1.pm[i].batchInfo.staged # TRUE
       THEN st1 ELSE Throw(st1, "assert 0xb89")

\* ---------------------------------------------------- stash / rehydration
\* batchInfo === undefined on a record that pre-dates batchInfo.
NoBatchInfo ==
    [clientId |-> NoClient, batchStartCsn |-> UndefinedNum, length |-> UndefinedNum,
     ignoreBatchId |-> FALSE, staged |-> FALSE]

\* patchbatchInfo giving every record a new batchInfo.
patchbatchInfo_Always(st, message) ==
    [st |-> st,
     message |-> [message EXCEPT !.batchInfo =
                     [clientId |-> uuid(st), batchStartCsn |-> 0 - 1,
                      length |-> 0 - 1, ignoreBatchId |-> FALSE, staged |-> FALSE]]]

patchbatchInfo(st, message) ==
    IF message.batchInfo = NoBatchInfo
    THEN [st |-> st,
          message |-> [message EXCEPT !.batchInfo =
                          [clientId |-> uuid(st), batchStartCsn |-> 0 - 1,
                           length |-> 0 - 1, ignoreBatchId |-> FALSE, staged |-> FALSE]]]
    ELSE [st |-> st, message |-> message]

\* The while loop leaving the entry whose applyStashedOp it awaits at the front
\* of the stash queue.
stashLoop_Peek(st, seqNum) ==
    IF st.im = <<>> THEN [st |-> st, awaiting |-> <<>>]
    ELSE [st |-> st, awaiting |-> <<Head(st.im)>>]

\* The while loop taking the front entry whatever its referenceSequenceNumber.
stashLoop_TakeAny(st, seqNum) ==
    IF st.im = <<>> THEN [st |-> st, awaiting |-> <<>>]
    ELSE [st |-> [st EXCEPT !.im = Tail(st.im)], awaiting |-> <<Head(st.im)>>]

\* applyStashedOpsAt from the top of its while loop up to the next await (or its
\* end).  awaiting is <<>> when the call has ended, else <<nextMessage>>: the
\* entry taken off the stash queue whose applyStashedOp is awaited.
RECURSIVE stashLoop(_, _)
stashLoop(st, seqNum) ==
    IF st.im = <<>> THEN [st |-> st, awaiting |-> <<>>]
    ELSE LET peekMessage == Head(st.im)
         IN IF seqNum # UndefinedNum /\ peekMessage.referenceSequenceNumber > seqNum
            THEN [st |-> st, awaiting |-> <<>>]
            ELSE IF seqNum # UndefinedNum /\ peekMessage.referenceSequenceNumber < seqNum
            THEN [st |-> Throw(st, "Error: loaded from snapshot too recent to apply stashed ops"),
                  awaiting |-> <<>>]
            ELSE LET st1 == [st EXCEPT !.im = Tail(st.im)]
                 IN IF isEmptyBatchPendingMessage(peekMessage)
                    THEN LET p == patchbatchInfo(
                                    st1, [peekMessage EXCEPT !.localOpMetadata = EmptyBatchMarker])
                         IN stashLoop([p.st EXCEPT !.pm = Append(p.st.pm, p.message)], seqNum)
                    ELSE [st |-> st1, awaiting |-> <<peekMessage>>]

\* DataProcessingError.wrapIfUnrecognized(error, codepath, message), thrown: a
\* data-processing error named after the code path; st.tag records the message
\* it carries.
wrapIfUnrecognized(st, codepath, message) ==
    Throw([st EXCEPT !.tag = <<message>>], "DataProcessingError: " \o codepath)

\* The continuation pushing the applied entry in front of the pending queue.
stashResume_Front(st, nextMessage, localOpMetadata, rejected, isAttached) ==
    IF rejected \/ (~isAttached /\ localOpMetadata # "undefined")
    THEN wrapIfUnrecognized(st, "applyStashedOp", nextMessage)
    ELSE IF isAttached
    THEN LET p == patchbatchInfo(
                    st, [nextMessage EXCEPT !.localOpMetadata = localOpMetadata,
                                            !.runtimeOp = parseContent(nextMessage.content)])
         IN [p.st EXCEPT !.pm = <<p.message>> \o p.st.pm]
    ELSE st

\* The continuation putting the entry back on the stash queue when applyStashedOp
\* rejects, for a later call to try again.
stashResume_PutBack(st, nextMessage, localOpMetadata, rejected, isAttached) ==
    IF rejected
    THEN wrapIfUnrecognized([st EXCEPT !.im = <<nextMessage>> \o st.im],
                            "applyStashedOp", nextMessage)
    ELSE IF isAttached
    THEN LET p == patchbatchInfo(
                    st, [nextMessage EXCEPT !.localOpMetadata = localOpMetadata,
                                            !.runtimeOp = parseContent(nextMessage.content)])
         IN [p.st EXCEPT !.pm = Append(p.st.pm, p.message)]
    ELSE IF localOpMetadata # "undefined"
    THEN wrapIfUnrecognized(st, "applyStashedOp", nextMessage)
    ELSE st

\* The continuation with a catch block that swallows the failure.
stashResume_Swallow(st, nextMessage, localOpMetadata, rejected, isAttached) ==
    IF rejected \/ ~isAttached THEN st
    ELSE LET p == patchbatchInfo(
                    st, [nextMessage EXCEPT !.localOpMetadata = localOpMetadata,
                                            !.runtimeOp = parseContent(nextMessage.content)])
         IN [p.st EXCEPT !.pm = Append(p.st.pm, p.message)]

\* The continuation pushing the applied entry whatever stateHandler.isAttached()
\* answers.
stashResume_PushDetached(st, nextMessage, localOpMetadata, rejected, isAttached) ==
    IF rejected
    THEN wrapIfUnrecognized(st, "applyStashedOp", nextMessage)
    ELSE LET p == patchbatchInfo(
                    st, [nextMessage EXCEPT !.localOpMetadata = localOpMetadata,
                                            !.runtimeOp = parseContent(nextMessage.content)])
         IN [p.st EXCEPT !.pm = Append(p.st.pm, p.message)]

\* The continuation of the await: applyStashedOp resolved with localOpMetadata,
\* or rejected (rejected = TRUE).  The error thrown out of the try block is
\* wrapped with nextMessage: st.tag records it.
stashResume(st, nextMessage, localOpMetadata, rejected, isAttached) ==
    IF rejected
    THEN wrapIfUnrecognized(st, "applyStashedOp", nextMessage)
    ELSE IF isAttached
    THEN LET p == patchbatchInfo(
                    st, [nextMessage EXCEPT !.localOpMetadata = localOpMetadata,
                                            !.runtimeOp = parseContent(nextMessage.content)])
         IN [p.st EXCEPT !.pm = Append(p.st.pm, p.message)]
    ELSE IF localOpMetadata # "undefined"
    THEN wrapIfUnrecognized(st, "applyStashedOp", nextMessage)
    ELSE st

\* ------------------------------------------------------------------- inputs
OpInputs == {<<"x1", "mdA">>, <<"x2", "mdB">>}

\* A batch as the outbox frames it: batch = true on the first message, false on
\* the last, no flag on a single message.
FramedBatch(ops, refSeq) ==
    [i \in 1..Len(ops) |->
        LocalBatchMessage(ops[i][1], ops[i][2], refSeq,
                          IF Len(ops) = 1 THEN "undefined"
                          ELSE IF i = 1 THEN "true"
                          ELSE IF i = Len(ops) THEN "false" ELSE "undefined",
                          NoBatchId)]

StashEntry(runtimeOp, refSeq, batchInfo) ==
    [referenceSequenceNumber |-> refSeq,
     content |-> serializeOp(runtimeOp),
     runtimeOp |-> UndefinedOp,
     localOpMetadata |-> "undefined",
     opMetadata |-> NoOpMetadata,
     sequenceNumber |-> UndefinedNum,
     batchInfo |-> batchInfo]

StashedBatchInfo(staged) ==
    [clientId |-> UuidBase, batchStartCsn |-> 0 - 1, length |-> 1,
     ignoreBatchId |-> FALSE, staged |-> staged]

\* stashedLocalState.pendingStates handed to the constructor.
StashedStates ==
    { <<>>,
      <<StashEntry([type |-> "op", contents |-> "x1"], 0, NoBatchInfo)>>,
      <<StashEntry([type |-> "op", contents |-> "x1"], 0, StashedBatchInfo(FALSE)),
        StashEntry(EmptyGroupedBatch, 1, StashedBatchInfo(FALSE))>>,
      <<StashEntry([type |-> "op", contents |-> "x2"], 1, StashedBatchInfo(TRUE))>> }

RemoteClient == 9

Room == MaxQueue - Len(pendingMessages) - Len(savedOps) - Len(applying)

\* -------------------------------------------------------------------- state
Init ==
    /\ pendingMessages = <<>>
    /\ initialMessages = <<>>
    /\ savedOps = <<>>
    /\ clientIdFromLastReplay = NoClient
    /\ disposed = FALSE
    /\ connected = FALSE
    /\ clientId = NoClient
    /\ applying = <<>>
    /\ op = "constructor"
    /\ err = "none"

Env == <<disposed, connected, clientId>>

\* A throw ends the session: the caller tears the container down.
Running == err = "none" /\ ~disposed

\* ----------------------------------------------------------------- actions
onFlushBatch(batch, clientSequenceNumber, staged, ignoreBatchId) ==
    /\ Commit("onFlushBatch",
              flushBatch(Cur, batch, clientSequenceNumber, staged, ignoreBatchId, clientId))
    /\ UNCHANGED <<Env, applying>>

onFlushEmptyBatch(placeholder, clientSequenceNumber, staged) ==
    /\ Commit("onFlushEmptyBatch",
              flushEmptyBatch(Cur, placeholder, clientSequenceNumber, staged, clientId))
    /\ UNCHANGED <<Env, applying>>

processInboundMessages(inbound, local) ==
    /\ Commit("processInboundMessages", processInbound(Cur, inbound, local))
    /\ UNCHANGED <<Env, applying>>

replayPendingStates(options, sink, active) ==
    /\ Commit("replayPendingStates", replayPending(Cur, options, sink, active))
    /\ UNCHANGED <<Env, applying>>

getLocalState(snapshotSequenceNumber) ==
    /\ Commit("getLocalState", localState(Cur, snapshotSequenceNumber))
    /\ UNCHANGED <<Env, applying>>

popStagedBatches ==
    /\ Commit("popStagedBatches", popStagedBatchesOn(Cur))
    /\ UNCHANGED <<Env, applying>>

\* The call runs to its first await or to its end.
applyStashedOpsAt(seqNum) ==
    LET r == stashLoop(Cur, seqNum)
    IN /\ Commit("applyStashedOpsAt", r.st)
       /\ applying' = IF r.awaiting = <<>> THEN applying
                      ELSE Append(applying, [seqNum |-> seqNum, nextMessage |-> r.awaiting[1]])
       /\ UNCHANGED Env

\* The awaited applyStashedOp of suspended call k settles; the call runs on to
\* its next await or to its end.  isAttached is what stateHandler.isAttached()
\* answers then.
applyStashedOpSettles(k, localOpMetadata, rejected, isAttached) ==
    LET call == applying[k]
        others == [i \in 1..(Len(applying) - 1) |->
                      IF i < k THEN applying[i] ELSE applying[i + 1]]
        st1 == stashResume(Cur, call.nextMessage, localOpMetadata, rejected, isAttached)
        r == IF st1.err # "none" THEN [st |-> st1, awaiting |-> <<>>]
             ELSE stashLoop(st1, call.seqNum)
    IN /\ Commit("applyStashedOpsAt", r.st)
       /\ applying' = IF r.awaiting = <<>> THEN others
                      ELSE Append(others, [seqNum |-> call.seqNum,
                                           nextMessage |-> r.awaiting[1]])
       /\ UNCHANGED Env

\* dispose clearing the queues at every call.
dispose_Again ==
    /\ pendingMessages' = <<>>
    /\ initialMessages' = <<>>
    /\ disposed' = TRUE
    /\ op' = "dispose"
    /\ err' = "none"
    /\ UNCHANGED <<savedOps, clientIdFromLastReplay, connected, clientId, applying>>

dispose ==
    /\ pendingMessages' = IF disposed THEN pendingMessages ELSE <<>>
    /\ initialMessages' = IF disposed THEN initialMessages ELSE <<>>
    /\ disposed' = TRUE
    /\ op' = "dispose"
    /\ err' = "none"
    /\ UNCHANGED <<savedOps, clientIdFromLastReplay, connected, clientId, applying>>

\* The connection state the stateHandler reports: a new connection has a new
\* clientId; the last clientId stays visible while disconnected.
Connect ==
    /\ Running /\ ~connected /\ clientId < MaxClients
    /\ connected' = TRUE
    /\ clientId' = clientId + 1
    /\ UNCHANGED <<pendingMessages, initialMessages, savedOps, clientIdFromLastReplay,
                   disposed, applying, op, err>>

Disconnect ==
    /\ Running /\ connected
    /\ connected' = FALSE
    /\ UNCHANGED <<pendingMessages, initialMessages, savedOps, clientIdFromLastReplay,
                   disposed, clientId, applying, op, err>>

Sink(mode, csn, refSeq) ==
    [mode |-> mode, csn |-> csn, refSeq |-> refSeq, connected |-> connected,
     clientId |-> clientId]

LastRefSeq == IF pendingMessages = <<>> THEN 0
              ELSE pendingMessages[Len(pendingMessages)].referenceSequenceNumber

\* The inputs of the calls are drawn from the sets a specification passes in.
\* The ops of a batch of n messages: any, or every other one the same.
AnyOps == [n \in BatchLens |-> [1..n -> OpInputs]]

AlternatingOps ==
    [n \in BatchLens |->
        {[i \in 1..n |-> IF i % 2 = 1 THEN ab[1] ELSE ab[2]] :
            ab \in {cd \in OpInputs \X OpInputs : cd[1] # cd[2]}}]

Flush(Ops, Lens, RefSeqSet, Stageds, Csns, Ignores) ==
    /\ Running
    /\ \E n \in Lens, refSeq \in RefSeqSet, staged \in Stageds, ignoreBatchId \in Ignores,
          clientSequenceNumber \in Csns :
          /\ n <= Room /\ refSeq >= LastRefSeq
          /\ \E ops \in Ops[n] :
                onFlushBatch(FramedBatch(ops, refSeq), clientSequenceNumber, staged,
                             ignoreBatchId)

FlushEmpty(RefSeqSet, Stageds, Csns) ==
    /\ Running /\ Room >= 1
    /\ \E refSeq \in RefSeqSet, staged \in Stageds, clientSequenceNumber \in Csns :
          /\ refSeq >= LastRefSeq
          /\ onFlushEmptyBatch(LocalEmptyBatchPlaceholder(refSeq, NoBatchId),
                               clientSequenceNumber, staged)

\* The batch starts a local ack may carry: the server's echo of a batch sent
\* with CSN 1 and no stamped batch id, and one of another CSN and batch id.
LocalBatchStarts ==
    [keySeq \in SeqNums |->
        {BatchStartInfo(NoBatchId, clientId, 1, keySeq),
         BatchStartInfo(generateBatchId(clientId, 1), clientId, 2, keySeq)}]

InboundMessages(contents, seq) ==
    [i \in 1..Len(contents) |-> InboundMessage(contents[i], seq + i - 1)]

\* Every local InboundMessageResult of at most n messages whose batch start
\* (when it has one) is among Starts[keySeq].
LocalInbounds(n, Starts) ==
    UNION {
        {InboundFullBatch(InboundMessages(contents, seq), batchStart) :
            batchStart \in Starts[seq]}
        \cup (IF Len(contents) # 1 THEN {}
              ELSE {InboundBatchStartingMessage(InboundMessage(contents[1], seq), batchStart) :
                        batchStart \in Starts[seq]}
                   \cup {InboundNextBatchMessage(InboundMessage(contents[1], seq))})
        : contents \in SeqsUpTo(Contents, n), seq \in SeqNums }

\* The batch start the server echoes for the front pending batch.
EchoedBatchStart ==
    [keySeq \in SeqNums |-> {BatchStartInfo(NoBatchId, clientId, 1, keySeq)}]

\* An ack of up to one message more than are pending.  What the batch start
\* carries decides only what onLocalBatchBegin logs, never the state reached.
LocalAck ==
    /\ Running /\ connected
    /\ \E inbound \in LocalInbounds(Len(pendingMessages) + 1, EchoedBatchStart) :
          processInboundMessages(inbound, TRUE)

\* The server echoes type and contents of what was sent.
EchoMessage(pendingMessage, sequenceNumber) ==
    [type |-> parseContent(pendingMessage.content).type,
     contents |-> parseContent(pendingMessage.content).contents,
     sequenceNumber |-> sequenceNumber]

\* The ack of the front pending message alone, delivered as the first message of
\* its batch or as a later one.
EchoFront ==
    /\ Running /\ connected /\ pendingMessages # <<>>
    /\ LET echo == EchoMessage(Head(pendingMessages), 1)
       IN \E inbound \in {InboundBatchStartingMessage(echo, batchStart) :
                             batchStart \in EchoedBatchStart[1]}
                         \cup {InboundNextBatchMessage(echo)} :
             processInboundMessages(inbound, TRUE)

\* A batch of another client.  Its batch id is unrelated to this client's, or
\* (a fork of this container) that of one of the pending batches.
RemoteBatchStarts ==
    {BatchStartInfo(batchId, RemoteClient, 1, 1) :
        batchId \in {NoBatchId}
                    \cup {getEffectiveBatchId(pendingMessages[i]) : i \in 1..Len(pendingMessages)}}
    \cup {BatchStartInfo(NoBatchId, c, 1, 1) : c \in 1..MaxClients}

RemoteInbounds ==
    {InboundFullBatch(<<InboundMessage("x1", 1)>>, batchStart) : batchStart \in RemoteBatchStarts}
    \cup {InboundBatchStartingMessage(InboundMessage("x1", 1), batchStart) :
            batchStart \in RemoteBatchStarts}
    \cup {InboundNextBatchMessage(InboundMessage("x1", 1))}

RemoteInbound ==
    /\ Running
    /\ \E inbound \in RemoteInbounds : processInboundMessages(inbound, FALSE)

ReplayOptions == [committingStagedBatches : BOOLEAN, squash : BOOLEAN]

NonCommitting == {options \in ReplayOptions : ~options.committingStagedBatches}

Committing == {options \in ReplayOptions : options.committingStagedBatches}

\* The sinks of a pass: what the runtime does with each batch, the CSN it gives
\* the first batch it sends.
Sinks(Modes, Csns) ==
    {Sink(mode, csn, refSeq) : mode \in Modes, csn \in Csns, refSeq \in {LastRefSeq}}

Replay(Modes, Csns, Options) ==
    /\ Running
    /\ \E options \in Options, sink \in Sinks(Modes, Csns), active \in BOOLEAN :
          replayPendingStates(options, sink, active)

PopStaged == Running /\ popStagedBatches

SnapshotSeqNums == {UndefinedNum} \cup 0..2

AnySeqNums == {UndefinedNum} \cup RefSeqs

GetLocalState ==
    /\ Running
    /\ \E snapshotSequenceNumber \in SnapshotSeqNums : getLocalState(snapshotSequenceNumber)

ApplyStashed(SeqNumSet) ==
    /\ Running
    /\ \E seqNum \in SeqNumSet : applyStashedOpsAt(seqNum)

ApplyStashedSettles ==
    /\ Running
    /\ \E k \in 1..Len(applying), localOpMetadata \in LocalMetas \cup {"undefined"},
          rejected \in BOOLEAN, isAttached \in BOOLEAN :
          applyStashedOpSettles(k, localOpMetadata, rejected, isAttached)

Dispose == dispose

\* ------------------------------------------------------------ specifications
\* Flushes and their acks.
AckFlush == Flush(AnyOps, BatchLens, {0}, BOOLEAN, {UndefinedNum, 1}, {FALSE})
AckFlushEmpty == FlushEmpty({0}, BOOLEAN, {UndefinedNum, 1})

\* The first connection.
FirstConnect == clientId = NoClient /\ Connect

Next ==
    \/ AckFlush
    \/ AckFlushEmpty
    \/ LocalAck
    \/ FirstConnect
    \/ Dispose

Spec == Init /\ [][Next]_vars

\* Flushes, resubmission on the first connection or when staged batches are
\* committed, and the discarding of staged batches.
ReplayFlush == Flush(AlternatingOps, BatchLens, {0}, BOOLEAN, {UndefinedNum, 1}, {FALSE})
ReplayFlushEmpty == FlushEmpty({0}, BOOLEAN, {UndefinedNum})
Resubmit == Replay(SinkModes, {1}, ReplayOptions)

NextReplay ==
    \/ ReplayFlush
    \/ ReplayFlushEmpty
    \/ Resubmit
    \/ PopStaged
    \/ FirstConnect

SpecReplay == Init /\ [][NextReplay]_vars

\* A manager constructed with stashed state, before any connection: the stash is
\* applied, batches are flushed unsent, staged batches are committed or popped.
InitStashed ==
    /\ initialMessages \in StashedStates
    /\ pendingMessages = <<>>
    /\ savedOps = <<>>
    /\ clientIdFromLastReplay = NoClient
    /\ disposed = FALSE
    /\ connected = FALSE
    /\ clientId = NoClient
    /\ applying = <<>>
    /\ op = "constructor"
    /\ err = "none"

StagedFlush == Flush(AlternatingOps, 1..2, {1}, BOOLEAN, {UndefinedNum}, {FALSE})
StagedFlushEmpty == FlushEmpty({1}, {TRUE}, {UndefinedNum})
ApplyAllStashed == ApplyStashed({UndefinedNum} \cup RefSeqs)
CommitStaged == Replay({"none", "resend"}, {1}, Committing)

NextStaged ==
    \/ StagedFlush
    \/ StagedFlushEmpty
    \/ ApplyAllStashed
    \/ ApplyStashedSettles
    \/ CommitStaged
    \/ PopStaged

SpecStaged == InitStashed /\ [][NextStaged]_vars

\* A manager rehydrated from stashed state: the stash is applied at the sequence
\* numbers the runtime reaches, the container connects, batches are flushed and
\* acked.
RehydratedStates ==
    { <<StashEntry([type |-> "op", contents |-> "x1"], 0, NoBatchInfo),
        StashEntry([type |-> "op", contents |-> "x2"], 1, NoBatchInfo)>>,
      <<StashEntry([type |-> "op", contents |-> "x1"], 0, StashedBatchInfo(FALSE)),
        StashEntry([type |-> "op", contents |-> "x2"], 0, NoBatchInfo),
        StashEntry(EmptyGroupedBatch, 1, StashedBatchInfo(FALSE))>>,
      <<StashEntry(EmptyGroupedBatch, 0, NoBatchInfo),
        StashEntry([type |-> "op", contents |-> "x1"], 1, StashedBatchInfo(TRUE))>>,
      <<StashEntry([type |-> "op", contents |-> "x2"], 1, NoBatchInfo)>> }

InitRehydrated ==
    /\ initialMessages \in RehydratedStates
    /\ pendingMessages = <<>>
    /\ savedOps = <<>>
    /\ clientIdFromLastReplay = NoClient
    /\ disposed = FALSE
    /\ connected = FALSE
    /\ clientId = NoClient
    /\ applying = <<>>
    /\ op = "constructor"
    /\ err = "none"

StashFlush == Flush(AlternatingOps, 1..1, {1}, {FALSE}, {UndefinedNum}, {FALSE})

NextStash ==
    \/ ApplyAllStashed
    \/ ApplyStashedSettles
    \/ StashFlush
    \/ EchoFront
    \/ FirstConnect

SpecStash == InitRehydrated /\ [][NextStash]_vars

\* A rehydrated manager replays on its connections, before or after the stash is
\* applied.
RehydratedReplay == Replay({"resend"}, {1}, ReplayOptions)

NextRehydrated ==
    \/ ApplyAllStashed
    \/ ApplyStashedSettles
    \/ RehydratedReplay
    \/ Connect
    \/ Disconnect

SpecRehydrated == InitRehydrated /\ [][NextRehydrated]_vars

\* A manager that is disposed of at some point and goes on being called: no
\* operation looks at disposed.
DisposalFlush ==
    /\ err = "none"
    /\ \E n \in 1..2, staged \in BOOLEAN :
          /\ n <= Room
          /\ \E ops \in AlternatingOps[n] :
                onFlushBatch(FramedBatch(ops, 1), UndefinedNum, staged, FALSE)

DisposalApplyStashed ==
    /\ err = "none"
    /\ \E seqNum \in AnySeqNums : applyStashedOpsAt(seqNum)

DisposalSettles ==
    /\ err = "none"
    /\ \E k \in 1..Len(applying), localOpMetadata \in LocalMetas \cup {"undefined"},
          rejected \in BOOLEAN, isAttached \in BOOLEAN :
          applyStashedOpSettles(k, localOpMetadata, rejected, isAttached)

NextDisposal ==
    \/ DisposalFlush
    \/ DisposalApplyStashed
    \/ DisposalSettles
    \/ Dispose

SpecDisposal == InitStashed /\ [][NextDisposal]_vars

\* A stash of three ops applied by applyStashedOpsAt calls that may overlap, each
\* applyStashedOp resolving while the document is attached, and batches flushed
\* in between.
OverlapStash ==
    <<StashEntry([type |-> "op", contents |-> "x1"], 0, StashedBatchInfo(FALSE)),
      StashEntry([type |-> "op", contents |-> "x2"], 0, StashedBatchInfo(FALSE)),
      StashEntry([type |-> "op", contents |-> "x1"], 1, StashedBatchInfo(FALSE))>>

InitOverlap ==
    /\ initialMessages = OverlapStash
    /\ pendingMessages = <<>>
    /\ savedOps = <<>>
    /\ clientIdFromLastReplay = NoClient
    /\ disposed = FALSE
    /\ connected = FALSE
    /\ clientId = NoClient
    /\ applying = <<>>
    /\ op = "constructor"
    /\ err = "none"

OverlapSettles ==
    /\ Running
    /\ \E k \in 1..Len(applying), localOpMetadata \in LocalMetas \cup {"undefined"} :
          applyStashedOpSettles(k, localOpMetadata, FALSE, TRUE)

NextOverlap ==
    \/ ApplyAllStashed
    \/ OverlapSettles
    \/ StashFlush

SpecOverlap == InitOverlap /\ [][NextOverlap]_vars

\* Batches are flushed and acked, which saves them, and replayed on each new
\* connection; the local state is taken at any time.
SameOps == [n \in BatchLens |-> {[i \in 1..n |-> <<"x1", "mdA">>]}]
SavedFlush == Flush(SameOps, 1..2, {0}, {FALSE}, {1}, {FALSE})
SavedReplay == Replay({"resend"}, {1}, ReplayOptions)

NextSaved ==
    \/ SavedFlush
    \/ EchoFront
    \/ SavedReplay
    \/ GetLocalState
    \/ Connect
    \/ Disconnect

SpecSaved == Init /\ [][NextSaved]_vars

\* Flushes, sent or not, staged or not, over connections that come and go.
FlushAny == Flush(AlternatingOps, 1..2, {0}, BOOLEAN, {UndefinedNum, 1}, {FALSE})
FlushAnyEmpty == FlushEmpty({0}, {FALSE}, {UndefinedNum, 1})

NextFlush ==
    \/ FlushAny
    \/ FlushAnyEmpty
    \/ Connect
    \/ Disconnect

SpecFlush == Init /\ [][NextFlush]_vars

\* Flushes, some of them with ignoreBatchId, resubmission (which stamps the batch
\* id on the first message) and the batches of other clients.
ForkFlush == Flush(AnyOps, 1..2, {0}, {FALSE}, {UndefinedNum, 1}, BOOLEAN)
ForkFlushEmpty == FlushEmpty({0}, {FALSE}, {UndefinedNum, 1})
ForkReplay == Replay({"resend"}, {1}, ReplayOptions)

NextFork ==
    \/ ForkFlush
    \/ ForkFlushEmpty
    \/ ForkReplay
    \/ RemoteInbound
    \/ FirstConnect

SpecFork == Init /\ [][NextFork]_vars

\* ------------------------------------------------------------------ claims
\* The claims are stated over every call the manager can receive in a state
\* that is Running: a session in which a call threw, or that was disposed,
\* receives no further call.
\* Every local inbound the claims about acks range over: any content, any batch
\* start, up to one message more than are pending.
AllLocalInbounds == LocalInbounds(Len(pendingMessages) + 1, LocalBatchStarts)

\* The i-th inbound message is the echo of the i-th pending message.
Echoes(inbound, i) ==
    /\ i <= Len(pendingMessages)
    /\ buildPendingMessageContent(inbound.messages[i]) = pendingMessages[i].content

\* The local inbounds that ack the first k pending messages (k >= 1) with equal
\* content, in order.
FrontAcks ==
    UNION {
        LET messages == [i \in 1..k |-> EchoMessage(pendingMessages[i], i)]
        IN {InboundFullBatch(messages, batchStart) : batchStart \in LocalBatchStarts[1]}
           \cup (IF k # 1 THEN {}
                 ELSE {InboundBatchStartingMessage(messages[1], batchStart) :
                          batchStart \in LocalBatchStarts[1]}
                      \cup {InboundNextBatchMessage(messages[1])})
        : k \in 1..Len(pendingMessages) }

\* inbound acks the first messages of the queue, in order, content equal.
AcksFront(inbound) ==
    /\ inbound.messages # <<>>
    /\ \A i \in 1..Len(inbound.messages) : Echoes(inbound, i)

\* onLocalBatchBegin refuses a batch start while the front message is staged.
StagedFront(inbound) ==
    /\ hasBatchStart(inbound)
    /\ pendingMessages # <<>>
    /\ pendingMessages[1].batchInfo.staged

\* The flush inputs the claims range over.
AllFlushBatches ==
    {FramedBatch(ops, 0) : ops \in UNION {[1..n -> OpInputs] : n \in BatchLens}}

AcksInOrder(inbound) ==
    \A r \in {processInbound(Cur, inbound, TRUE)}, k \in {Len(inbound.messages)} :
       /\ r.err = "none"
       /\ r.pm = SubSeq(pendingMessages, k + 1, Len(pendingMessages))
       /\ r.ret = [i \in 1..k |->
                      [message |-> inbound.messages[i],
                       localOpMetadata |-> pendingMessages[i].localOpMetadata]]

FlushAppendsInOrder ==
    \A batch \in AllFlushBatches, csn \in {UndefinedNum, 1}, staged \in BOOLEAN :
        \A r \in {flushBatch(Cur, batch, csn, staged, FALSE, clientId)} :
           r.err = "none" =>
            /\ Len(r.pm) = Len(pendingMessages) + Len(batch)
            /\ SubSeq(r.pm, 1, Len(pendingMessages)) = pendingMessages
            /\ \A i \in 1..Len(batch) :
                  /\ r.pm[Len(pendingMessages) + i].localOpMetadata = batch[i].localOpMetadata
                  /\ r.pm[Len(pendingMessages) + i].content = serializeOp(batch[i].runtimeOp)

\* C1 as stated: whatever was flushed, acks in flush order with equal content
\* never throw, remove from the front in push order and pair the k-th ack with
\* the k-th flushed localOpMetadata.
C1_AsStated ==
    (Running /\ connected) =>
    /\ FlushAppendsInOrder
    /\ \A inbound \in FrontAcks : AcksFront(inbound) /\ AcksInOrder(inbound)

\* C1 amended: the same, for acks that do not bring a batch start to a staged
\* front message (that one fails assert 0xb85, nothing removed).
C1_AcksInPushOrder ==
    Running =>
    /\ FlushAppendsInOrder
    /\ \A inbound \in FrontAcks :
          AcksFront(inbound) /\
            IF StagedFront(inbound)
            THEN \A r \in {processInbound(Cur, inbound, TRUE)} :
                    r.err = "assert 0xb85" /\ r.pm = pendingMessages
            ELSE AcksInOrder(inbound)

C1_Witness ==
    /\ op = "processInboundMessages" /\ err = "none"
    /\ Len(savedOps) >= 2 /\ pendingMessages # <<>>
    /\ savedOps[1].content # savedOps[2].content

ContentMismatch == "DataProcessingError: pending local message content mismatch"

\* C2 as stated: an inbound message that differs from the front pending message
\* makes the call throw the data-processing error; the call never returns
\* normally having consumed a pending message that does not match its ack.
C2_AsStated ==
    (Running /\ connected) =>
    \A inbound \in AllLocalInbounds :
        \A r \in {processInbound(Cur, inbound, TRUE)} :
           /\ (pendingMessages # <<>> /\ inbound.messages # <<>> /\ ~Echoes(inbound, 1))
                => r.err = ContentMismatch
           /\ (r.err = "none" /\ inbound.messages # <<>>) => AcksFront(inbound)

\* C2 amended: the differing message makes the call throw: the data-processing
\* error once the message is compared (it has then been removed and saved),
\* assert 0xb85 before anything is removed when the inbound brings a batch start
\* to a staged front message.  The call never returns normally having consumed
\* a message that does not match.
C2_MismatchThrows ==
    Running =>
    \A inbound \in AllLocalInbounds :
        \A r \in {processInbound(Cur, inbound, TRUE)} :
           /\ (pendingMessages # <<>> /\ inbound.messages # <<>> /\ ~Echoes(inbound, 1))
                => IF StagedFront(inbound)
                   THEN r.err = "assert 0xb85" /\ r.pm = pendingMessages
                   ELSE /\ r.err = ContentMismatch
                        /\ r.pm = Tail(pendingMessages)
                        /\ Len(r.so) = Len(savedOps) + 1
                        /\ r.ret = <<>>
           /\ (r.err = "none" /\ inbound.messages # <<>>) => AcksFront(inbound)
           /\ \A i \in 1..Len(inbound.messages) :
                  (~StagedFront(inbound) /\ i <= Len(pendingMessages) /\ ~Echoes(inbound, i)
                   /\ \A j \in 1..(i - 1) : Echoes(inbound, j))
                  => r.err = ContentMismatch /\ r.pm = SubSeq(pendingMessages, i + 1,
                                                              Len(pendingMessages))

C2_Witness ==
    /\ op = "processInboundMessages" /\ err = ContentMismatch
    /\ savedOps # <<>> /\ pendingMessages # <<>>

\* The zero-length local acks: a full batch of no messages.
EmptyBatchAcks == {inbound \in AllLocalInbounds : inbound.length = 0}

IsPlaceholder(pendingMessage) == pendingMessage.localOpMetadata = EmptyBatchMarker

\* The zero-length ack is processed without comparing content: it removes the
\* front message alone, saves it under the key message's sequence number and
\* returns no message.
EmptyAckSucceeds(inbound) ==
    \A r \in {processInbound(Cur, inbound, TRUE)} :
       /\ r.err = "none"
       /\ r.pm = Tail(pendingMessages)
       /\ r.ret = <<>>
       /\ r.so = Append(savedOps,
                        toSerializableForm(
                            [pendingMessages[1] EXCEPT
                                !.sequenceNumber = inbound.batchStart.keyMessage.sequenceNumber]))
       /\ "unexpectedAckReceived" \notin {r.log[i] : i \in 1..Len(r.log)}

\* C10 as stated: after onFlushEmptyBatch the zero-length ack succeeds, removes
\* the one placeholder and releases the {emptyBatch: true} marker; on any other
\* front message it fails an invariant.
C10_AsStated ==
    (Running /\ connected) =>
    \A inbound \in EmptyBatchAcks :
        \A r \in {processInbound(Cur, inbound, TRUE)} :
           IF pendingMessages # <<>> /\ IsPlaceholder(pendingMessages[1])
           THEN EmptyAckSucceeds(inbound)
           ELSE r.err \in {"assert 0xa20", "assert 0xa21", "assert 0xb85"}

\* C10 amended: the same for a placeholder flushed with staged = false; the ack
\* of a staged placeholder fails assert 0xb85 and removes nothing.  A front
\* message that is no placeholder fails 0xa20 after it was removed and saved
\* (0xb85 if it is staged, 0xa21 if there is none, nothing removed).
C10_EmptyBatchAck ==
    Running =>
    \A inbound \in EmptyBatchAcks :
        \A r \in {processInbound(Cur, inbound, TRUE)} :
           IF pendingMessages = <<>> THEN r.err = "assert 0xa21" /\ r.pm = pendingMessages
           ELSE IF pendingMessages[1].batchInfo.staged
           THEN r.err = "assert 0xb85" /\ r.pm = pendingMessages
           ELSE IF IsPlaceholder(pendingMessages[1])
           THEN /\ EmptyAckSucceeds(inbound)
                /\ pendingMessages[1].runtimeOp = EmptyGroupedBatch
           ELSE r.err = "assert 0xa20" /\ r.pm = Tail(pendingMessages)

C10_Witness ==
    /\ op = "processInboundMessages" /\ err = "none"
    /\ savedOps # <<>>
    /\ isEmptyBatchPendingMessage(savedOps[Len(savedOps)])
    /\ pendingMessages # <<>>

\* ---- C3
ForkedContainer == "DataProcessingError: Forked Container Error"

\* i is the first pending message whose batchInfo.ignoreBatchId is not true.
FirstUsingBatchId(i) ==
    /\ i \in 1..Len(pendingMessages)
    /\ pendingMessages[i].batchInfo.ignoreBatchId # TRUE
    /\ \A j \in 1..(i - 1) : pendingMessages[j].batchInfo.ignoreBatchId = TRUE

\* The inbound carries a batch start whose effective batch id is that of the
\* first pending message using batch ids.
CollidesWithPending(inbound) ==
    /\ hasBatchStart(inbound)
    /\ \E i \in 1..Len(pendingMessages) :
          /\ FirstUsingBatchId(i)
          /\ getEffectiveBatchId(pendingMessages[i])
                = getEffectiveBatchIdOfStart(inbound.batchStart)

\* C3: a non-local inbound whose batch start has the effective batch id of the
\* first pending message whose ignoreBatchId is not true makes
\* processInboundMessages throw the forked-container error (not the content
\* mismatch error) and leaves the pending queue unchanged; every other non-local
\* inbound is returned without a throw.
C3_ForkDetected ==
    Running =>
        \A inbound \in RemoteInbounds :
            \A r \in {processInbound(Cur, inbound, FALSE)} :
               IF CollidesWithPending(inbound)
               THEN /\ r.err = ForkedContainer
                    /\ r.err # ContentMismatch
                    /\ r.pm = pendingMessages
                    /\ r.so = savedOps
               ELSE /\ r.err = "none"
                    /\ r.pm = pendingMessages
                    /\ Len(r.ret) = Len(inbound.messages)

\* A fork was detected behind a front message that ignores batch ids, against a
\* batch id stamped by a resubmission.
C3_Witness ==
    /\ op = "processInboundMessages"
    /\ err = ForkedContainer
    /\ Len(pendingMessages) >= 2
    /\ pendingMessages[1].batchInfo.ignoreBatchId = TRUE
    /\ \E i \in 2..Len(pendingMessages) :
          /\ FirstUsingBatchId(i)
          /\ pendingMessages[i].opMetadata.batchId # NoBatchId

\* ---- replay: C4 to C7
\* The inputs of replayPendingStates the claims range over.  The telemetry of
\* a pass is none of their concern: isActiveConnection() answers true.
AllSinks == Sinks(SinkModes, {1})

\* What the calls of a pass handed over, message by message; the empty array a
\* placeholder is handed over as counts as the marker.
RECURSIVE HandedOver(_)
HandedOver(out) ==
    IF out = <<>> THEN <<>>
    ELSE (IF Head(out).batch = <<>> THEN <<EmptyBatchMarker>> ELSE Head(out).batch)
         \o HandedOver(Tail(out))

\* What the sink's flushes pushed during the calls of a pass.
RECURSIVE FlushedDuring(_)
FlushedDuring(out) ==
    IF out = <<>> THEN <<>> ELSE Head(out).flushed \o FlushedDuring(Tail(out))

\* A pending message as reSubmitBatch receives it.
AsHandedOver(pendingMessage) ==
    IF IsPlaceholder(pendingMessage) THEN EmptyBatchMarker
    ELSE [runtimeOp |-> pendingMessage.runtimeOp,
          localOpMetadata |-> pendingMessage.localOpMetadata,
          opMetadata |-> pendingMessage.opMetadata]

\* C4: a non-committing replayPendingStates that completes has removed exactly
\* the messages pending when it was called and handed each of them to
\* reSubmitBatch once, in queue order; what the sink's re-entrant flushes pushed
\* meanwhile was not replayed and is all the queue holds at the end.
C4_ReplaysCallTimeMessages ==
    Running =>
        \A options \in NonCommitting, sink \in AllSinks :
            \A r \in {replayPending(Cur, options, sink, TRUE)} :
               r.err = "none" =>
                /\ HandedOver(r.out)
                      = [i \in 1..Len(pendingMessages) |-> AsHandedOver(pendingMessages[i])]
                /\ r.pm = FlushedDuring(r.out)
                /\ sink.mode = "none" => r.pm = <<>>
                /\ sink.mode = "resend" =>
                      /\ Len(r.pm) = Len(pendingMessages)
                      /\ \A i \in 1..Len(r.pm) : r.pm[i].content = pendingMessages[i].content
                /\ sink.mode = "empty" =>
                      /\ Len(r.pm) = Len(r.out)
                      /\ \A i \in 1..Len(r.pm) : IsPlaceholder(r.pm[i])

\* A non-committing pass completed on a resending sink: the queue holds the
\* resubmitted batches, the first sent on this connection, the last still staged.
C4_Witness ==
    /\ op = "replayPendingStates" /\ err = "none"
    /\ connected /\ clientIdFromLastReplay = clientId
    /\ Len(pendingMessages) >= 2
    /\ pendingMessages[1].opMetadata.batchId # NoBatchId
    /\ pendingMessages[1].batchInfo.clientId = clientId
    /\ pendingMessages[Len(pendingMessages)].batchInfo.staged
    /\ \E i \in 2..Len(pendingMessages) : pendingMessages[i].opMetadata.batchId # NoBatchId

\* C5: a non-committing replayPendingStates called while clientId() is the one
\* recorded at the previous replay fails an invariant (0x173; 0x172 when not
\* connected) before anything is removed, resubmitted or recorded; a committing
\* pass is not subject to the check.
C5_SameClientIdRefused ==
    Running =>
        \A sink \in AllSinks :
            /\ \A options \in NonCommitting :
                  \A r \in {replayPending(Cur, options, sink, TRUE)} :
                     sink.clientId = clientIdFromLastReplay =>
                        /\ r.err = IF sink.connected THEN "assert 0x173" ELSE "assert 0x172"
                        /\ r.pm = pendingMessages
                        /\ r.so = savedOps
                        /\ r.lr = clientIdFromLastReplay
                        /\ r.out = <<>>
            /\ \A options \in Committing :
                  \A r \in {replayPending(Cur, options, sink, TRUE)} :
                     /\ r.err \notin {"assert 0x172", "assert 0x173"}
                     /\ r.lr = sink.clientId

\* The second replay on the same connection was refused with messages pending.
C5_Witness ==
    /\ op = "replayPendingStates" /\ err = "assert 0x173"
    /\ connected /\ clientIdFromLastReplay = clientId
    /\ pendingMessages # <<>>

\* The framing of the queue: messages i..k are one batch as the outbox frames it.
Framed(i, k) ==
    /\ i < k
    /\ pendingMessages[i].opMetadata.batch = "true"
    /\ pendingMessages[k].opMetadata.batch = "false"
    /\ \A m \in (i + 1)..(k - 1) : pendingMessages[m].opMetadata.batch = "undefined"

InsideBatch(i) ==
    \E j \in 1..(i - 1), k \in (i + 1)..Len(pendingMessages) : Framed(j, k)

\* The first messages of the batches in the queue: those flagged true, and
\* those without a flag outside any framed batch (single messages, placeholders).
BatchStarts ==
    {i \in 1..Len(pendingMessages) :
        \/ pendingMessages[i].opMetadata.batch = "true"
        \/ pendingMessages[i].opMetadata.batch = "undefined" /\ ~InsideBatch(i)}

BatchEnd(i) ==
    IF pendingMessages[i].opMetadata.batch = "true"
    THEN CHOOSE k \in (i + 1)..Len(pendingMessages) : Framed(i, k)
    ELSE i

\* The queue consists of whole batches (none acked in part), each flushed by one
\* onFlushBatch call.
WholeBatches ==
    /\ \A i \in 1..Len(pendingMessages) :
          /\ pendingMessages[i].opMetadata.batch = "true"
                => \E k \in (i + 1)..Len(pendingMessages) : Framed(i, k)
          /\ pendingMessages[i].opMetadata.batch = "false"
                => \E j \in 1..(i - 1) : Framed(j, i)
    /\ \A i \in BatchStarts : \A m \in i..BatchEnd(i) :
          /\ pendingMessages[m].batchInfo = pendingMessages[i].batchInfo
          /\ IsPlaceholder(pendingMessages[m]) => m = i /\ BatchEnd(i) = i

\* The staged messages of a queue are a contiguous suffix of it.
StagedSuffixOf(queue) ==
    \A i \in 1..Len(queue), j \in 1..Len(queue) :
        (i < j /\ queue[i].batchInfo.staged) => queue[j].batchInfo.staged

StagedSuffix == StagedSuffixOf(pendingMessages)

\* The k-th (k >= 1) of a set of queue positions.
Nth(S, k) == CHOOSE i \in S : Cardinality({j \in S : j < i}) = k - 1

\* The batches a pass is to resubmit: all, or the staged ones when committing.
ToResubmit(options) ==
    IF options.committingStagedBatches
    THEN {i \in BatchStarts : pendingMessages[i].batchInfo.staged}
    ELSE BatchStarts

\* The pass is let through by the checks made before its loop and meets no
\* non-staged batch behind a staged one when committing.
PassAdmitted(options, sink) ==
    /\ initialMessages = <<>>
    /\ IF options.committingStagedBatches THEN StagedSuffix
       ELSE sink.connected /\ sink.clientId # clientIdFromLastReplay

ExpectedBatch(i) ==
    IF IsPlaceholder(pendingMessages[i]) THEN <<>>
    ELSE [m \in 1..(BatchEnd(i) - i + 1) |-> AsHandedOver(pendingMessages[i + m - 1])]

ExpectedMetadata(i, options) ==
    [batchId |-> IF pendingMessages[i].batchInfo.ignoreBatchId THEN NoBatchId
                 ELSE getEffectiveBatchId(pendingMessages[i]),
     staged |-> pendingMessages[i].batchInfo.staged /\ ~options.committingStagedBatches,
     squash |-> options.squash]

\* C6: replaying a queue of whole batches makes one reSubmitBatch call per
\* batch, in queue order: the messages framed by batch = true ... batch = false
\* in one call in their order, a message without flag as a one-element batch, a
\* placeholder as the empty array; each call is given the batch id of its batch,
\* its staged flag (false when committing) and the squash option of the pass.  No
\* call holds messages of two batches.
C6_OneCallPerBatch ==
    (Running /\ WholeBatches) =>
        \A options \in ReplayOptions, sink \in AllSinks :
            \A r \in {replayPending(Cur, options, sink, TRUE)} :
               PassAdmitted(options, sink) =>
                  /\ r.err = "none"
                  /\ Len(r.out) = Cardinality(ToResubmit(options))
                  /\ \A k \in 1..Len(r.out) :
                        /\ r.out[k].batch = ExpectedBatch(Nth(ToResubmit(options), k))
                        /\ r.out[k].metadata
                              = ExpectedMetadata(Nth(ToResubmit(options), k), options)

\* A batch of three messages was resubmitted as one batch, the batch id stamped
\* on its first message.
C6_Witness ==
    /\ op = "replayPendingStates" /\ err = "none"
    /\ Len(pendingMessages) = 3
    /\ Framed(1, 3)
    /\ pendingMessages[1].opMetadata.batchId # NoBatchId
    /\ pendingMessages[1].batchInfo.length = 3

IsStaged(pendingMessage) == pendingMessage.batchInfo.staged

NotStaged(pendingMessage) == ~pendingMessage.batchInfo.staged

\* C7: a committing replayPendingStates of a queue of whole batches re-queues
\* the non-staged messages unchanged and in order without handing them to
\* reSubmitBatch and hands the staged batches over with staged = false; at the
\* end the queue holds the non-staged messages followed by what the sink pushed.
\* It fails assert 0xb86 when a non-staged message is behind a staged one.
C7_CommitsStagedOnly ==
    (Running /\ WholeBatches /\ initialMessages = <<>>) =>
        \A options \in Committing, sink \in AllSinks :
            \A r \in {replayPending(Cur, options, sink, TRUE)} :
               IF StagedSuffix
               THEN /\ r.err = "none"
                    /\ r.pm = SelectSeq(pendingMessages, NotStaged) \o FlushedDuring(r.out)
                    /\ HandedOver(r.out)
                          = [i \in 1..Len(SelectSeq(pendingMessages, IsStaged)) |->
                                AsHandedOver(SelectSeq(pendingMessages, IsStaged)[i])]
                    /\ \A k \in 1..Len(r.out) : r.out[k].metadata.staged = FALSE
               ELSE r.err = "assert 0xb86"

\* Staged batches were committed before any connection: the queue holds a
\* non-staged message as it was flushed, then a resubmitted one, staged no more.
C7_Witness ==
    /\ op = "replayPendingStates" /\ err = "none"
    /\ clientId = NoClient
    /\ Len(pendingMessages) >= 2
    /\ pendingMessages[1].opMetadata.batchId = NoBatchId
    /\ pendingMessages[Len(pendingMessages)].opMetadata.batchId # NoBatchId
    /\ \A i \in 1..Len(pendingMessages) : ~pendingMessages[i].batchInfo.staged

\* ---- staged batches: C8, C9
\* The position of the last non-staged message, 0 when every message is staged.
LastNotStaged ==
    IF \A i \in 1..Len(pendingMessages) : pendingMessages[i].batchInfo.staged THEN 0
    ELSE CHOOSE i \in 1..Len(pendingMessages) :
            /\ ~pendingMessages[i].batchInfo.staged
            /\ \A j \in (i + 1)..Len(pendingMessages) : pendingMessages[j].batchInfo.staged

\* The maximal trailing run of staged messages, last first.
TrailingStaged ==
    [k \in 1..(Len(pendingMessages) - LastNotStaged) |->
        pendingMessages[Len(pendingMessages) - k + 1]]

NotPlaceholder(pendingMessage) == ~IsPlaceholder(pendingMessage)

\* C8: popStagedBatches removes the maximal trailing run of staged messages from
\* the back, invokes the callback once on each of them, last first, except on
\* the placeholders, stops at the first non-staged message from the back and
\* leaves the prefix before it as it was.
C8_PopsTrailingStaged ==
    Running =>
        \A r \in {popStagedBatchesOn(Cur)} :
            /\ r.pm = SubSeq(pendingMessages, 1, LastNotStaged)
            /\ r.cb = SelectSeq(TrailingStaged, NotPlaceholder)
            /\ r.so = savedOps /\ r.im = initialMessages

\* Behind a non-staged message the queue holds staged ones, a placeholder among
\* them; popStagedBatches pops them all and calls back on those that are none.
C8_Witness ==
    /\ Running
    /\ LastNotStaged >= 1
    /\ Len(pendingMessages) - LastNotStaged >= 2
    /\ \E i \in (LastNotStaged + 1)..Len(pendingMessages) : IsPlaceholder(pendingMessages[i])
    /\ \A r \in {popStagedBatchesOn(Cur)} :
          /\ r.err = "none"
          /\ Len(r.cb) >= 1
          /\ Len(r.cb) < Len(pendingMessages) - Len(r.pm)

StagedFlushBatches ==
    {FramedBatch(ops, 1) : ops \in AlternatingOps[1] \cup AlternatingOps[2]}

\* Pushing behind the queue keeps the staged messages a suffix exactly when the
\* messages pushed are staged or none of the pending ones is.
PushKeepsSuffix(queue) ==
    /\ Len(queue) >= Len(pendingMessages)
    /\ SubSeq(queue, 1, Len(pendingMessages)) = pendingMessages
    /\ StagedSuffixOf(queue)
          <=> /\ StagedSuffix
              /\ StagedSuffixOf(SubSeq(queue, Len(pendingMessages) + 1, Len(queue)))
              /\ \/ \A i \in 1..Len(pendingMessages) : ~pendingMessages[i].batchInfo.staged
                 \/ \A i \in (Len(pendingMessages) + 1)..Len(queue) :
                       queue[i].batchInfo.staged

AnyFlushBatches ==
    {FramedBatch(ops, 0) : ops \in UNION {AlternatingOps[n] : n \in BatchLens}}
    \cup {<<LocalEmptyBatchPlaceholder(0, NoBatchId)>>}

\* The identifiers of the batches the manager holds records of.
HeldBatchClientIds ==
    {pendingMessages[i].batchInfo.clientId : i \in 1..Len(pendingMessages)}
    \cup {initialMessages[i].batchInfo.clientId : i \in 1..Len(initialMessages)}
    \cup {savedOps[i].batchInfo.clientId : i \in 1..Len(savedOps)}

\* C11: an onFlushBatch that completes has pushed one pending message per input
\* message, in input order, behind the queue, and changed no entry that was
\* there; the messages pushed share one batchInfo whose length is the batch
\* size and whose staged flag is the one given; its identity is (clientId(),
\* the CSN) when a CSN was given, else (an identifier no other batch held
\* carries and no connection has, -1).
C11_FlushAppendsBatch ==
    Running =>
        \A batch \in AnyFlushBatches, csn \in {UndefinedNum} \cup CSNs,
           staged \in BOOLEAN, ignoreBatchId \in BOOLEAN :
            \A r \in {flushBatch(Cur, batch, csn, staged, ignoreBatchId, clientId)} :
               r.err = "none" =>
                  /\ Len(r.pm) = Len(pendingMessages) + Len(batch)
                  /\ SubSeq(r.pm, 1, Len(pendingMessages)) = pendingMessages
                  /\ r.im = initialMessages /\ r.so = savedOps
                  /\ \A i \in 1..Len(batch) :
                        \A pushed \in {r.pm[Len(pendingMessages) + i]} :
                           /\ pushed.runtimeOp = batch[i].runtimeOp
                           /\ pushed.content = serializeOp(batch[i].runtimeOp)
                           /\ pushed.localOpMetadata = batch[i].localOpMetadata
                           /\ pushed.opMetadata = batch[i].metadata
                           /\ pushed.referenceSequenceNumber
                                 = batch[i].referenceSequenceNumber
                           /\ pushed.batchInfo = r.pm[Len(pendingMessages) + 1].batchInfo
                           /\ pushed.batchInfo.length = Len(batch)
                           /\ pushed.batchInfo.staged = staged
                           /\ IF csn # UndefinedNum
                              THEN /\ pushed.batchInfo.clientId = clientId
                                   /\ pushed.batchInfo.batchStartCsn = csn
                              ELSE /\ pushed.batchInfo.clientId \notin HeldBatchClientIds
                                   /\ pushed.batchInfo.clientId \notin 0..MaxClients
                                   /\ pushed.batchInfo.batchStartCsn = 0 - 1

\* Behind an unsent batch the queue holds a batch of two sent on the second
\* connection.
C11_Witness ==
    /\ op = "onFlushBatch" /\ err = "none"
    /\ Len(pendingMessages) = 3
    /\ pendingMessages[1].batchInfo.batchStartCsn = 0 - 1
    /\ pendingMessages[1].batchInfo.clientId > MaxClients
    /\ pendingMessages[2].batchInfo = pendingMessages[3].batchInfo
    /\ pendingMessages[3].batchInfo.clientId = MaxClients
    /\ pendingMessages[3].batchInfo.length = 2
    /\ pendingMessages[2].content # pendingMessages[3].content

\* C12 as stated: onFlushBatch and onFlushEmptyBatch complete without error for
\* every batch, CSN (given or not), staged flag and connection state.
C12_AsStated ==
    Running =>
        \A batch \in AnyFlushBatches, csn \in {UndefinedNum} \cup CSNs, staged \in BOOLEAN :
            /\ flushBatch(Cur, batch, csn, staged, FALSE, clientId).err = "none"
            /\ flushEmptyBatch(Cur, batch[1], csn, staged, clientId).err = "none"

\* C12 amended: they complete without error unless a CSN is given together with
\* staged = true (assert 0xb84) or a CSN is given while clientId() is undefined
\* (assert 0xa33); a call that fails has pushed nothing.
C12_FlushFailsOnlyWhenSent ==
    Running =>
        \A batch \in AnyFlushBatches, csn \in {UndefinedNum} \cup CSNs, staged \in BOOLEAN :
            \A r \in {flushBatch(Cur, batch, csn, staged, FALSE, clientId),
                      flushEmptyBatch(Cur, batch[1], csn, staged, clientId)} :
               /\ r.err = (IF csn # UndefinedNum /\ staged THEN "assert 0xb84"
                           ELSE IF csn # UndefinedNum /\ clientId = NoClient
                           THEN "assert 0xa33" ELSE "none")
               /\ r.err # "none" => r.pm = pendingMessages

\* A flush with a CSN failed before the first connection, messages pending.
C12_Witness ==
    /\ op \in {"onFlushBatch", "onFlushEmptyBatch"}
    /\ err = "assert 0xa33"
    /\ clientId = NoClient
    /\ pendingMessages # <<>>

\* ---- applyStashedOpsAt: C13, C14, C15, C16
\* One applyStashedOpsAt call run from the state st to its end with nothing in
\* between: settles[i] is how the i-th applyStashedOp it awaits settles.
RECURSIVE applyStashedRunFrom(_, _, _)
applyStashedRunFrom(r, seqNum, settles) ==
    IF r.awaiting = <<>> \/ settles = <<>> THEN r
    ELSE LET st1 == stashResume(r.st, r.awaiting[1], Head(settles).localOpMetadata,
                                Head(settles).rejected, Head(settles).isAttached)
         IN IF st1.err # "none" THEN [st |-> st1, awaiting |-> <<>>]
            ELSE applyStashedRunFrom(stashLoop(st1, seqNum), seqNum, Tail(settles))

applyStashedRun(st, seqNum, settles) ==
    applyStashedRunFrom(stashLoop(st, seqNum), seqNum, settles)

\* applyStashedOp resolves while the document is attached.
AttachedSettles ==
    [localOpMetadata : LocalMetas \cup {"undefined"}, rejected : {FALSE}, isAttached : {TRUE}]

AnySettles ==
    [localOpMetadata : LocalMetas \cup {"undefined"}, rejected : BOOLEAN, isAttached : BOOLEAN]

\* The pending message p is the stash entry e, applied.
AppliedEntry(p, e) ==
    /\ p.content = e.content
    /\ p.referenceSequenceNumber = e.referenceSequenceNumber
    /\ p.opMetadata = e.opMetadata
    /\ p.sequenceNumber = e.sequenceNumber

\* C13: an applyStashedOpsAt call that completes while the document is attached
\* has taken some number k of entries off the front of the stash queue and
\* pushed them, in stored order, behind the pending messages, which it left as
\* they were; pendingMessagesCount is what it was before the call.
C13_StashMovesInOrder ==
    Running =>
        \A seqNum \in AnySeqNums,
           settles \in [1..Len(initialMessages) -> AttachedSettles] :
            \A r \in {applyStashedRun(Cur, seqNum, settles)} :
               r.st.err = "none" =>
                  /\ r.awaiting = <<>>
                  /\ \E k \in 0..Len(initialMessages) :
                        /\ r.st.im = SubSeq(initialMessages, k + 1, Len(initialMessages))
                        /\ Len(r.st.pm) = Len(pendingMessages) + k
                        /\ SubSeq(r.st.pm, 1, Len(pendingMessages)) = pendingMessages
                        /\ \A i \in 1..k :
                              AppliedEntry(r.st.pm[Len(pendingMessages) + i],
                                           initialMessages[i])
                  /\ Len(r.st.pm) + Len(r.st.im)
                        = Len(pendingMessages) + Len(initialMessages)

\* A stash of two ops and an empty batch has been applied to the end.
C13_Witness ==
    /\ op = "applyStashedOpsAt" /\ err = "none"
    /\ applying = <<>> /\ initialMessages = <<>>
    /\ Len(pendingMessages) = 3
    /\ pendingMessages[1].content = serializeOp([type |-> "op", contents |-> "x1"])
    /\ pendingMessages[2].content = serializeOp([type |-> "op", contents |-> "x2"])
    /\ isEmptyBatchPendingMessage(pendingMessages[3])

\* The index of the first stash entry whose referenceSequenceNumber is not
\* seqNum; one more than the length of the stash queue when there is none.
FirstNotAt(seqNum) ==
    CHOOSE j \in 1..(Len(initialMessages) + 1) :
        /\ \A i \in 1..(j - 1) : initialMessages[i].referenceSequenceNumber = seqNum
        /\ j <= Len(initialMessages)
              => initialMessages[j].referenceSequenceNumber # seqNum

TooRecent == "Error: loaded from snapshot too recent to apply stashed ops"

\* C14: applyStashedOpsAt(seqNum) takes off the stash queue only entries whose
\* referenceSequenceNumber is seqNum, however the applyStashedOp calls settle.
\* When they all succeed it takes all of them up to the first entry of another
\* referenceSequenceNumber: it ends there without error when that entry's
\* number is greater than seqNum (or the stash queue is exhausted) and throws
\* when it is less; the entry and all later ones stay in the stash queue.
C14_AppliesOnlyAtSeqNum ==
    Running =>
        \A seqNum \in RefSeqs :
            \A j \in {FirstNotAt(seqNum)} :
               /\ \A settles \in [1..Len(initialMessages) -> AnySettles] :
                     \A r \in {applyStashedRun(Cur, seqNum, settles)} :
                        \E k \in 1..j :
                           r.st.im = SubSeq(initialMessages, k, Len(initialMessages))
               /\ \A settles \in [1..Len(initialMessages) -> AttachedSettles] :
                     \A r \in {applyStashedRun(Cur, seqNum, settles)} :
                        /\ r.awaiting = <<>>
                        /\ r.st.im = SubSeq(initialMessages, j, Len(initialMessages))
                        /\ Len(r.st.pm) = Len(pendingMessages) + j - 1
                        /\ r.st.err =
                              (IF j <= Len(initialMessages)
                                  /\ initialMessages[j].referenceSequenceNumber < seqNum
                               THEN TooRecent ELSE "none")

\* The call threw at the front entry, of a lower referenceSequenceNumber, and
\* left it and the entry behind it in the stash queue.
C14_Witness ==
    /\ op = "applyStashedOpsAt" /\ err = TooRecent
    /\ Len(initialMessages) = 2
    /\ initialMessages[1].referenceSequenceNumber = 0
    /\ initialMessages[2].referenceSequenceNumber = 1

\* applyStashedOp rejects, or resolves with metadata while the document is not
\* attached.
Fails(settle) ==
    settle.rejected \/ (~settle.isAttached /\ settle.localOpMetadata # "undefined")

\* The index of the first settle that fails; one more than their number when
\* none does.
FirstFailing(settles) ==
    CHOOSE f \in 1..(Len(settles) + 1) :
        /\ \A i \in 1..(f - 1) : ~Fails(settles[i])
        /\ f <= Len(settles) => Fails(settles[f])

ApplyStashedOpFailed == "DataProcessingError: applyStashedOp"

\* C15: when the applyStashedOp of an entry fails (it rejects, or it returns
\* metadata while the document is not attached), applyStashedOpsAt throws a
\* data-processing error that carries that entry; the call ends there: the
\* entry is not pushed and not put back, and the stash entries behind it stay
\* where they were.
C15_StashFailureSurfaces ==
    Running =>
        \A seqNum \in AnySeqNums, settles \in [1..Len(initialMessages) -> AnySettles] :
            \A f \in {FirstFailing(settles)} :
               \A before \in {applyStashedRun(Cur, seqNum, SubSeq(settles, 1, f - 1))} :
                  (f <= Len(settles) /\ before.awaiting # <<>>) =>
                     \A r \in {applyStashedRun(Cur, seqNum, settles)} :
                        /\ r.st.err = ApplyStashedOpFailed
                        /\ r.st.tag = before.awaiting
                        /\ r.awaiting = <<>>
                        /\ r.st.im = before.st.im
                        /\ r.st.pm = before.st.pm
                        /\ \A i \in 1..Len(r.st.pm) :
                              ~AppliedEntry(r.st.pm[i], before.awaiting[1])
                              \/ i <= Len(pendingMessages)

\* The second applyStashedOp of a call failed: the first entry is pending, the
\* third is still in the stash queue.
C15_Witness ==
    /\ op = "applyStashedOpsAt" /\ err = ApplyStashedOpFailed
    /\ applying = <<>>
    /\ Len(pendingMessages) = 1
    /\ pendingMessages[1].content = serializeOp([type |-> "op", contents |-> "x1"])
    /\ Len(initialMessages) = 1
    /\ isEmptyBatchPendingMessage(initialMessages[1])

\* The batch start of an ack that agrees with the front pending message on
\* batchStartCsn and batch id.
AgreeingBatchStart ==
    BatchStartInfo(Head(pendingMessages).opMetadata.batchId, clientId,
                   Head(pendingMessages).batchInfo.batchStartCsn, 1)

\* C16: applyStashedOpsAt pushes a stash entry that has no batchInfo with
\* batchInfo (an identifier no other pending message carries and no connection
\* has, -1, -1, staged = false), and one that has batchInfo with that batchInfo;
\* the batch begin of a local ack whose front pending message has length -1
\* reports no mismatch whatever the length of the inbound batch.
C16_StashedBatchInfoPatched ==
    Running =>
        /\ \A seqNum \in AnySeqNums,
              settles \in [1..Len(initialMessages) -> AttachedSettles] :
              \A r \in {applyStashedRun(Cur, seqNum, settles)} :
                 \A i \in 1..(Len(r.st.pm) - Len(pendingMessages)) :
                    \A pushed \in {r.st.pm[Len(pendingMessages) + i]} :
                       IF initialMessages[i].batchInfo = NoBatchInfo
                       THEN /\ pushed.batchInfo.clientId \notin 0..MaxClients
                            /\ \A q \in 1..Len(r.st.pm) :
                                  q # Len(pendingMessages) + i
                                     => r.st.pm[q].batchInfo.clientId
                                           # pushed.batchInfo.clientId
                            /\ pushed.batchInfo.batchStartCsn = 0 - 1
                            /\ pushed.batchInfo.length = 0 - 1
                            /\ pushed.batchInfo.staged = FALSE
                       ELSE pushed.batchInfo = initialMessages[i].batchInfo
        /\ (pendingMessages # <<>> /\ Head(pendingMessages).batchInfo.length = 0 - 1) =>
              \A batchLength \in {UndefinedNum} \cup 0..MaxQueue :
                 \A r \in {onLocalBatchBegin(Cur, AgreeingBatchStart, batchLength)} :
                    r.err = "none" /\ r.log = <<>>

\* A stashed op without batchInfo was applied, patched and then acked; the one
\* behind it, patched too, is pending.
C16_Witness ==
    /\ op = "processInboundMessages" /\ err = "none"
    /\ Len(savedOps) = 1 /\ Len(pendingMessages) = 1
    /\ savedOps[1].batchInfo.length = 0 - 1
    /\ pendingMessages[1].batchInfo.length = 0 - 1
    /\ pendingMessages[1].batchInfo.clientId # savedOps[1].batchInfo.clientId

\* ---- replayPendingStates and the saved ops: C17
\* C17: a replayPendingStates call that completes, committing staged batches or
\* not, leaves no saved op; a getLocalState that follows at once either throws
\* (a pending message is older than the snapshot) or returns the pending
\* messages, in their serializable form, and nothing else.
C17_ReplayClearsSavedOps ==
    Running =>
        \A options \in ReplayOptions, sink \in AllSinks, active \in BOOLEAN :
            \A r \in {replayPending(Cur, options, sink, active)} :
               r.err = "none" =>
                  /\ r.so = <<>>
                  /\ \A snapshotSequenceNumber \in SnapshotSeqNums :
                        \A g \in {localState(r, snapshotSequenceNumber)} :
                           /\ g.err \in {"none",
                                 "LoggingError: trying to stash ops older than our latest snapshot"}
                           /\ g.err = "none" =>
                                 g.ret = [i \in 1..Len(r.pm) |-> toSerializableForm(r.pm[i])]

\* A replay on the second connection completed with messages pending.
C17_Witness ==
    /\ op = "replayPendingStates" /\ err = "none"
    /\ clientIdFromLastReplay = MaxClients
    /\ savedOps = <<>>
    /\ Len(pendingMessages) >= 2

\* ---- the checks replayPendingStates starts with: C18
\* C18: a replayPendingStates call made while stateHandler.connected() is false
\* without committingStagedBatches fails assert 0x172, and one made while the
\* stash queue is not empty fails an assert (0x174, or 0x172 or 0x173 before
\* it); such a call removes no pending message and hands nothing to
\* reSubmitBatch.  So a call that hands a batch to reSubmitBatch found the stash
\* queue empty and the runtime connected or committingStagedBatches true.
C18_ReplayChecksFirst ==
    Running =>
        \A options \in ReplayOptions, sink \in AllSinks, active \in BOOLEAN :
            \A r \in {replayPending(Cur, options, sink, active)} :
               /\ ~(sink.connected \/ options.committingStagedBatches)
                     => r.err = "assert 0x172"
               /\ initialMessages # <<>>
                     => r.err \in {"assert 0x172", "assert 0x173", "assert 0x174"}
               /\ (initialMessages # <<>>
                   \/ ~(sink.connected \/ options.committingStagedBatches))
                     => /\ r.pm = pendingMessages
                        /\ r.out = <<>>
                        /\ r.so = savedOps /\ r.im = initialMessages
               /\ r.out # <<>>
                     => /\ initialMessages = <<>>
                        /\ sink.connected \/ options.committingStagedBatches

\* A replay on a connection failed on the stash queue, one stashed op applied
\* and pending, another still stashed.
C18_Witness ==
    /\ op = "replayPendingStates" /\ err = "assert 0x174"
    /\ connected
    /\ pendingMessages # <<>>
    /\ initialMessages # <<>>

\* ---- fork detection beyond the first pending batch: C20
\* The inbound carries a batch start whose effective batch id is that of some
\* pending message using batch ids.
MatchesSomePending(inbound) ==
    /\ hasBatchStart(inbound)
    /\ \E i \in 1..Len(pendingMessages) :
          /\ pendingMessages[i].batchInfo.ignoreBatchId # TRUE
          /\ getEffectiveBatchId(pendingMessages[i])
                = getEffectiveBatchIdOfStart(inbound.batchStart)

\* C20 as stated: a non-local inbound batch whose effective batch id is that of
\* any pending batch, at the head of the queue or not, is rejected with the
\* forked-container error.
C20_AsStated ==
    Running =>
        \A inbound \in RemoteInbounds :
            MatchesSomePending(inbound)
               => processInbound(Cur, inbound, FALSE).err = ForkedContainer

\* C20 amended: only the first pending message using batch ids is compared.  A
\* non-local inbound batch whose effective batch id is that of a later pending
\* batch, and not that of the first, is returned without error; the
\* forked-container error is thrown only on a match with the first.
C20_OnlyFirstBatchCompared ==
    Running =>
        \A inbound \in RemoteInbounds :
            \A r \in {processInbound(Cur, inbound, FALSE)} :
               /\ (MatchesSomePending(inbound) /\ ~CollidesWithPending(inbound))
                     => /\ r.err = "none"
                        /\ r.pm = pendingMessages
                        /\ Len(r.ret) = Len(inbound.messages)
               /\ r.err = ForkedContainer => CollidesWithPending(inbound)

\* A remote batch was taken in while two batches of different batch ids were
\* pending.
C20_Witness ==
    /\ op = "processInboundMessages" /\ err = "none"
    /\ Len(pendingMessages) >= 2
    /\ pendingMessages[1].batchInfo.ignoreBatchId # TRUE
    /\ pendingMessages[Len(pendingMessages)].batchInfo.ignoreBatchId # TRUE
    /\ getEffectiveBatchId(pendingMessages[1])
          # getEffectiveBatchId(pendingMessages[Len(pendingMessages)])

\* ---- dispose: C19
\* C19 as stated: once disposed, the pending queue and the stash queue are empty
\* and stay empty whatever is called.
C19_AsStated == disposed => (pendingMessages = <<>> /\ initialMessages = <<>>)

\* C19 amended: the first dispose() empties both queues; a later dispose()
\* changes nothing, not even a queue filled since; and an onFlushBatch that
\* completes after disposal has pushed its messages.
C19_DisposeClearsOnce ==
    [][/\ (op' = "dispose" /\ ~disposed)
             => (pendingMessages' = <<>> /\ initialMessages' = <<>> /\ disposed')
       /\ (op' = "dispose" /\ disposed)
             => UNCHANGED <<pendingMessages, initialMessages, savedOps,
                            clientIdFromLastReplay, disposed>>
       /\ (disposed /\ op' = "onFlushBatch" /\ err' = "none")
             => (disposed' /\ Len(pendingMessages') > Len(pendingMessages))]_vars

\* dispose() was called again after a flush that followed the disposal: the
\* flushed messages are pending.
C19_Witness ==
    /\ op = "dispose" /\ disposed
    /\ pendingMessages # <<>>

\* ---- the stash queue only shrinks: C21
IsSuffixOf(a, b) == \E k \in 0..Len(b) : a = SubSeq(b, k + 1, Len(b))

\* C21: every step leaves in the stash queue a suffix of what it held (so the
\* queue never grows, entries leave it from the front only, and once empty it
\* stays empty); the same holds of what every operation called in the state
\* reached would leave, a flush, an inbound batch, a replay, a pop of the
\* staged batches, getLocalState or a new applyStashedOpsAt.
C21_StashOnlyShrinks ==
    /\ [][IsSuffixOf(initialMessages', initialMessages)]_vars
    /\ [](/\ \A batch \in AnyFlushBatches, staged \in BOOLEAN :
                flushBatch(Cur, batch, UndefinedNum, staged, FALSE, clientId).im
                   = initialMessages
          /\ \A inbound \in RemoteInbounds :
                processInbound(Cur, inbound, FALSE).im = initialMessages
          /\ \A inbound \in LocalInbounds(1, EchoedBatchStart) :
                processInbound(Cur, inbound, TRUE).im = initialMessages
          /\ \A options \in ReplayOptions, sink \in AllSinks :
                replayPending(Cur, options, sink, TRUE).im = initialMessages
          /\ popStagedBatchesOn(Cur).im = initialMessages
          /\ \A snapshotSequenceNumber \in SnapshotSeqNums :
                localState(Cur, snapshotSequenceNumber).im = initialMessages
          /\ \A seqNum \in AnySeqNums :
                IsSuffixOf(stashLoop(Cur, seqNum).st.im, initialMessages))

\* The stash has been applied to the end and the first of its entries acked.
C21_Witness ==
    /\ op = "processInboundMessages" /\ err = "none"
    /\ initialMessages = <<>> /\ applying = <<>>
    /\ savedOps # <<>>

\* ---- minimumPendingMessageSequenceNumber: C22
Minimum(S) == CHOOSE m \in S : \A n \in S : m <= n

\* The referenceSequenceNumbers of the messages at the front of the two queues,
\* and of all the messages in them.
FrontRefSeqs ==
    {pendingMessages[i].referenceSequenceNumber : i \in 1..Len(pendingMessages) \cap {1}}
    \cup {initialMessages[i].referenceSequenceNumber : i \in 1..Len(initialMessages) \cap {1}}

OutstandingRefSeqs ==
    {pendingMessages[i].referenceSequenceNumber : i \in 1..Len(pendingMessages)}
    \cup {initialMessages[i].referenceSequenceNumber : i \in 1..Len(initialMessages)}

\* C22: minimumPendingMessageSequenceNumber is the lesser of the
\* referenceSequenceNumbers of the first pending message and of the first
\* stashed message, which is the least referenceSequenceNumber of all the
\* messages outstanding; it is undefined only when there is none.
C22_AsStated ==
    Running =>
        \A minimum \in {minimumPendingMessageSequenceNumber(Cur)} :
           IF OutstandingRefSeqs = {} THEN minimum = UndefinedNum
           ELSE /\ minimum = Minimum(FrontRefSeqs)
                /\ minimum = Minimum(OutstandingRefSeqs)

\* ---- what an ack leaves behind: C23
\* The messages an ack may carry: none (the empty batch), or an op of any
\* contents.
AckedMessages == {<<>>} \cup {<<InboundMessage(contents, 1)>> : contents \in Contents}

\* C23: processNextPendingMessage called while a message is pending takes the
\* front message off the queue and appends it to the saved ops, stamped with the
\* sequence number and without runtimeOp and localOpMetadata, whether or not it
\* then throws the content mismatch: the pending queue is one shorter and the
\* saved ops one longer.
C23_AckMovesFrontToSaved ==
    (Running /\ pendingMessages # <<>>) =>
        \A sequenceNumber \in 1..2, message \in AckedMessages :
            \A r \in {processNextPendingMessage(Cur, sequenceNumber, message)} :
               /\ r.err \in {"none", ContentMismatch}
               /\ r.err = ContentMismatch
                     <=> (message # <<>> /\ buildPendingMessageContent(message[1])
                                               # Head(pendingMessages).content)
               /\ r.pm = Tail(pendingMessages)
               /\ Len(r.so) = Len(savedOps) + 1
               /\ SubSeq(r.so, 1, Len(savedOps)) = savedOps
               /\ \A saved \in {r.so[Len(r.so)]} :
                     /\ saved.sequenceNumber = sequenceNumber
                     /\ saved.runtimeOp = UndefinedOp
                     /\ saved.localOpMetadata = "undefined"
                     /\ saved.content = Head(pendingMessages).content
                     /\ saved.referenceSequenceNumber
                           = Head(pendingMessages).referenceSequenceNumber
                     /\ saved.opMetadata = Head(pendingMessages).opMetadata
                     /\ saved.batchInfo = Head(pendingMessages).batchInfo

\* An ack threw the content mismatch: the message it was compared with is the
\* last of the saved ops, stamped, and no longer pending.
C23_Witness ==
    /\ op = "processInboundMessages" /\ err = ContentMismatch
    /\ savedOps # <<>>
    /\ savedOps[Len(savedOps)].sequenceNumber = 1
    /\ savedOps[Len(savedOps)].runtimeOp = UndefinedOp
    /\ savedOps[Len(savedOps)].localOpMetadata = "undefined"

\* ---- overlapping applyStashedOpsAt calls: C24
\* What tells the entries of the stash apart, and the pending messages that come
\* from the stash (no flush and no patch gives the batchInfo.clientId of a
\* stashed batch).
EntryKey(m) == <<m.content, m.referenceSequenceNumber>>

KeysOf(messages) == [i \in 1..Len(messages) |-> EntryKey(messages[i])]

FromStash(m) == m.batchInfo.clientId = UuidBase

AppliedKeys(pm) == KeysOf(SelectSeq(pm, FromStash))

AwaitedKeys == [i \in 1..Len(applying) |-> EntryKey(applying[i].nextMessage)]

\* The keys of a appear in b in the same order.
RECURSIVE InOrderWithin(_, _)
InOrderWithin(a, b) ==
    IF a = <<>> THEN TRUE
    ELSE IF b = <<>> THEN FALSE
    ELSE IF Head(a) = Head(b) THEN InOrderWithin(Tail(a), Tail(b))
    ELSE InOrderWithin(a, Tail(b))

\* a holds the elements of b, each as many times.
SameElements(a, b) ==
    /\ Len(a) = Len(b)
    /\ \A x \in {a[i] : i \in 1..Len(a)} \cup {b[i] : i \in 1..Len(b)} :
          Cardinality({i \in 1..Len(a) : a[i] = x})
             = Cardinality({i \in 1..Len(b) : b[i] = x})

\* C24 as stated: however flushes and overlapping applyStashedOpsAt calls
\* interleave, the stashed entries pending are in stash order, and every entry
\* of the stash is pending, awaited or still stashed, once.
C24_AsStated ==
    Running =>
        /\ InOrderWithin(AppliedKeys(pendingMessages), KeysOf(OverlapStash))
        /\ SameElements(AppliedKeys(pendingMessages) \o AwaitedKeys \o KeysOf(initialMessages),
                        KeysOf(OverlapStash))

\* One applyStashedOpsAt call run from st to its end, a batch flushed (or none,
\* <<>>) before each applyStashedOp settles.
RECURSIVE applyStashedRunFlushing(_, _, _, _)
applyStashedRunFlushing(r, seqNum, settles, flushes) ==
    IF r.awaiting = <<>> \/ settles = <<>> THEN r
    ELSE LET st0 == IF Head(flushes) = <<>> THEN r.st
                    ELSE flushBatch(r.st, Head(flushes), UndefinedNum, FALSE, FALSE, clientId)
             st1 == stashResume(st0, r.awaiting[1], Head(settles).localOpMetadata,
                                Head(settles).rejected, Head(settles).isAttached)
         IN IF st1.err # "none" THEN [st |-> st1, awaiting |-> <<>>]
            ELSE applyStashedRunFlushing(stashLoop(st1, seqNum), seqNum,
                                         Tail(settles), Tail(flushes))

FlushedBetween == {<<>>, FramedBatch(<<<<"x2", "mdB">>>>, 1)}

\* C24 amended: every entry of the stash is pending, awaited or still stashed,
\* once, however flushes and overlapping calls interleave; and one call, with
\* flushes between its awaits and no other call settling meanwhile, appends the
\* entries it takes in stash order.  Overlapping calls append in the order
\* their applyStashedOp calls settle.
C24_EachOnceInOrderPerCall ==
    Running =>
        /\ SameElements(AppliedKeys(pendingMessages) \o AwaitedKeys \o KeysOf(initialMessages),
                        KeysOf(OverlapStash))
        /\ \A seqNum \in AnySeqNums,
              settles \in [1..Len(initialMessages) -> AttachedSettles],
              flushes \in [1..Len(initialMessages) -> FlushedBetween] :
              \A r \in {applyStashedRunFlushing(stashLoop(Cur, seqNum), seqNum,
                                                settles, flushes)} :
                 r.st.err = "none" =>
                    /\ IsSuffixOf(r.st.im, initialMessages)
                    /\ AppliedKeys(SubSeq(r.st.pm, Len(pendingMessages) + 1, Len(r.st.pm)))
                          = SubSeq(KeysOf(initialMessages), 1,
                                   Len(initialMessages) - Len(r.st.im))

\* The second entry of the stash is pending in front of the first: the call
\* that took it settled first.
C24_Witness ==
    /\ op = "applyStashedOpsAt" /\ err = "none"
    /\ Len(pendingMessages) >= 2
    /\ FromStash(pendingMessages[1]) /\ FromStash(pendingMessages[2])
    /\ EntryKey(pendingMessages[1]) = EntryKey(OverlapStash[2])
    /\ EntryKey(pendingMessages[2]) = EntryKey(OverlapStash[1])

\* ---- batch info mismatch at a local batch start: C25
\* The batch starts a local inbound may carry, agreeing or not with the front
\* pending message on batchStartCsn and on the stamped batch id.
AnyLocalBatchStarts ==
    {BatchStartInfo(batchId, clientId, batchStartCsn, 1) :
        batchId \in {NoBatchId, generateBatchId(clientId, 1)},
        batchStartCsn \in {0 - 1} \cup CSNs}

AnyBatchLengths == {UndefinedNum} \cup 0..MaxQueue

\* The batch start and length disagree with the batch info of the front pending
\* message.
BatchInfoMismatch(batchStart, batchLength) ==
    \/ Head(pendingMessages).batchInfo.batchStartCsn # batchStart.batchStartCsn
    \/ Head(pendingMessages).opMetadata.batchId # batchStart.batchId
    \/ /\ batchLength # UndefinedNum
       /\ Head(pendingMessages).batchInfo.length # 0 - 1
       /\ Head(pendingMessages).batchInfo.length
             # (IF batchLength = 0 THEN 1 ELSE batchLength)

\* C25: while the front pending message is not staged, onLocalBatchBegin never
\* throws and changes neither queue nor the saved ops; it logs BatchInfoMismatch
\* exactly when the batch start or the length disagrees with the batch info of
\* the front pending message.  A local inbound with a batch start is then
\* processed message by message as it would be without the batch start.
C25_MismatchOnlyLogged ==
    (Running /\ pendingMessages # <<>> /\ ~Head(pendingMessages).batchInfo.staged) =>
        /\ \A batchStart \in AnyLocalBatchStarts, batchLength \in AnyBatchLengths :
              \A r \in {onLocalBatchBegin(Cur, batchStart, batchLength)} :
                 /\ r.err = "none"
                 /\ r.pm = pendingMessages /\ r.so = savedOps /\ r.im = initialMessages
                 /\ r.log = (IF BatchInfoMismatch(batchStart, batchLength)
                             THEN <<"BatchInfoMismatch">> ELSE <<>>)
        /\ \A inbound \in {i \in AllLocalInbounds : hasBatchStart(i) /\ i.length > 0} :
              \A r \in {processInbound(Cur, inbound, TRUE)},
                 q \in {zip(inbound.messages, processEach(Cur, inbound.messages))} :
                 /\ r.err = q.err /\ r.ret = q.ret
                 /\ r.pm = q.pm /\ r.so = q.so
                 /\ r.log = (IF BatchInfoMismatch(inbound.batchStart, inbound.length)
                             THEN <<"BatchInfoMismatch">> ELSE <<>>) \o q.log

\* A batch that was never sent, so of batchStartCsn -1, has been acked whole.
C25_Witness ==
    /\ op = "processInboundMessages" /\ err = "none"
    /\ Len(savedOps) >= 2
    /\ savedOps[1].batchInfo.batchStartCsn = 0 - 1
    /\ savedOps[1].batchInfo.length = 2
    /\ savedOps[2].batchInfo = savedOps[1].batchInfo

\* ---- the telemetry of a replay: C26
\* C26 as stated: a pass that completes on an active connection reports as
\* count the number of messages it handed to reSubmitBatch, a placeholder
\* counting as one.  The connection is active, so there is one.
C26_AsStated ==
    (Running /\ WholeBatches) =>
        \A options \in ReplayOptions, sink \in AllSinks :
            \A r \in {replayPending(Cur, options, sink, TRUE)} :
               (sink.connected /\ r.err = "none") =>
                  r.log = <<<<"PendingStatesReplayed", Len(HandedOver(r.out))>>>>

\* C26: a pass that completes emits PendingStatesReplayed once, at its end,
\* exactly when isActiveConnection() answers true; a pass that throws emits
\* nothing.  The count is the number of messages that were pending when the pass
\* was called: the number handed to reSubmitBatch (a placeholder counting as
\* one) in a non-committing pass, and that number plus the number of non-staged
\* messages, which are re-queued and not handed over, in a committing pass.
C26_CountsMessagesPendingAtCall ==
    (Running /\ WholeBatches) =>
        \A options \in ReplayOptions, sink \in AllSinks, active \in BOOLEAN :
            \A r \in {replayPending(Cur, options, sink, active)} :
               /\ r.log = (IF r.err = "none" /\ active
                           THEN <<<<"PendingStatesReplayed", Len(pendingMessages)>>>>
                           ELSE <<>>)
               /\ r.err = "none" =>
                     Len(pendingMessages)
                        = Len(HandedOver(r.out))
                          + (IF options.committingStagedBatches
                             THEN Len(SelectSeq(pendingMessages, NotStaged)) ELSE 0)

\* A committing pass re-queued a non-staged batch of two messages and handed
\* over one staged message: three were pending, one was replayed.
C26_Witness ==
    /\ op = "replayPendingStates" /\ err = "none"
    /\ connected
    /\ Len(pendingMessages) = 3
    /\ Framed(1, 2)
    /\ pendingMessages[1].opMetadata.batchId = NoBatchId
    /\ pendingMessages[3].opMetadata.batchId # NoBatchId
    /\ \A i \in 1..3 : ~pendingMessages[i].batchInfo.staged

\* ---- badly framed batches in a replay: C27
\* onFlushBatch keeps the batch flags its caller set, whatever they are.
BatchFlags == {"true", "undefined", "false"}

FlaggedBatch(flags, refSeq) ==
    [i \in 1..Len(flags) |-> LocalBatchMessage("x1", "mdA", refSeq, flags[i], NoBatchId)]

FramingFlush ==
    /\ Running
    /\ \E n \in 1..2, staged \in BOOLEAN :
          /\ n <= Room
          /\ \E flags \in [1..n -> BatchFlags] :
                onFlushBatch(FlaggedBatch(flags, 0), UndefinedNum, staged, FALSE)

\* The runtime flushes what it is handed, or nothing.
FramingReplay == Replay({"none", "resend"}, {1}, ReplayOptions)

NextFraming ==
    \/ FramingFlush
    \/ FramingReplay
    \/ FirstConnect

SpecFraming == Init /\ [][NextFraming]_vars

\* The flags of a batch as a caller of onFlushBatch is to set them.
WellFramed(flags) ==
    \/ flags = <<"undefined">>
    \/ /\ Len(flags) >= 2
       /\ flags[1] = "true" /\ flags[Len(flags)] = "false"
       /\ \A i \in 2..(Len(flags) - 1) : flags[i] = "undefined"

FlagsOf(messages) == [i \in 1..Len(messages) |-> messages[i].opMetadata.batch]

\* The first framing fault of a sequence of flags, "none" when it is a sequence
\* of well framed batches.
RECURSIVE FramingFault(_)
FramingFault(flags) ==
    IF flags = <<>> THEN "none"
    ELSE IF flags[1] = "false" THEN "assert 0x41b"
    ELSE IF flags[1] = "undefined" THEN FramingFault(Tail(flags))
    ELSE IF Len(flags) = 1 THEN "assert 0x554"
    ELSE IF \A i \in 2..Len(flags) : flags[i] = "undefined" THEN "assert 0x555"
    ELSE LET next == CHOOSE i \in 2..Len(flags) :
                        /\ flags[i] # "undefined"
                        /\ \A j \in 2..(i - 1) : flags[j] = "undefined"
         IN IF flags[next] = "true" THEN "assert 0x556"
            ELSE FramingFault(SubSeq(flags, next + 1, Len(flags)))

\* The messages a pass is to hand over: all, or the staged ones when committing.
ToReplay(options) ==
    IF options.committingStagedBatches THEN SelectSeq(pendingMessages, IsStaged)
    ELSE pendingMessages

\* C27: whatever the flags of the pending messages, every batch a replay hands
\* to reSubmitBatch is well framed: one message without flag, or a message
\* flagged true, messages without flag and a message flagged false.  A pass let
\* through by its precondition checks fails with the assert of the first framing
\* fault among the messages it is to hand over: 0x41b for batch = false where a
\* batch must start, 0x554 or 0x555 for a batch start with no batch end among the
\* messages counted for the pass, 0x556 for a second batch start before the
\* batch end; it completes when there is none.
C27_BadFramingIsFatal ==
    Running =>
        \A options \in ReplayOptions, sink \in AllSinks :
            \A r \in {replayPending(Cur, options, sink, TRUE)} :
               /\ \A k \in 1..Len(r.out) : WellFramed(FlagsOf(r.out[k].batch))
               /\ PassAdmitted(options, sink) =>
                     r.err = FramingFault(FlagsOf(ToReplay(options)))

\* A replay met a second batch start before the batch end.
C27_Witness ==
    /\ op = "replayPendingStates"
    /\ err = "assert 0x556"

\* ---- a replay refused by its precondition checks: C28
PreconditionAsserts == {"assert 0x172", "assert 0x173", "assert 0x174"}

\* C28 as stated: a replayPendingStates call that fails a precondition check
\* leaves the pending queue, the saved ops and the recorded clientId of the last
\* replay unchanged.
C28_AsStated ==
    Running =>
        \A options \in ReplayOptions, sink \in AllSinks :
            \A r \in {replayPending(Cur, options, sink, TRUE)} :
               r.err \in PreconditionAsserts =>
                  /\ r.pm = pendingMessages
                  /\ r.so = savedOps
                  /\ r.lr = clientIdFromLastReplay

\* The manager after a refused call r, the stash queue since emptied.
StashEmptied(r) == [Cur EXCEPT !.lr = r.lr, !.im = <<>>]

\* C28: a replayPendingStates call that fails a precondition check hands nothing
\* to reSubmitBatch and leaves the pending queue, the stash queue and the saved
\* ops unchanged.  It leaves the recorded clientId unchanged when it fails the
\* connection check (0x172) or the double-replay guard (0x173); a call that gets
\* to the check of the stash queue (0x174) has recorded the current clientId, so
\* the same call without committingStagedBatches, repeated once the stash queue
\* is empty, fails the double-replay guard, and one with committingStagedBatches
\* does not.
C28_StashCheckRecordsClientId ==
    Running =>
        \A options \in ReplayOptions, sink \in AllSinks :
            \A r \in {replayPending(Cur, options, sink, TRUE)} :
               r.err \in PreconditionAsserts =>
                  /\ r.pm = pendingMessages /\ r.im = initialMessages
                  /\ r.so = savedOps
                  /\ r.out = <<>>
                  /\ r.lr = (IF r.err = "assert 0x174" THEN sink.clientId
                             ELSE clientIdFromLastReplay)
                  /\ r.err = "assert 0x174" =>
                        \A again \in {replayPending(StashEmptied(r), options, sink, TRUE)} :
                           IF options.committingStagedBatches
                           THEN again.err \notin PreconditionAsserts
                           ELSE again.err = "assert 0x173"

\* A replay on a new connection was refused for the stash queue not being empty,
\* and the clientId of that connection is recorded.
C28_Witness ==
    /\ op = "replayPendingStates" /\ err = "assert 0x174"
    /\ connected /\ clientId # NoClient
    /\ clientIdFromLastReplay = clientId
    /\ initialMessages # <<>>

\* ---- staged batches in a replay: C29
\* The staged batches of the queue.
StagedBatches == {i \in BatchStarts : pendingMessages[i].batchInfo.staged}

\* C29: the k-th reSubmitBatch call of a replay of whole batches is given
\* staged = true exactly when the first message of the k-th batch it resubmits is
\* staged and the replay is not committing staged batches.  A non-committing
\* replay let through by its checks hands every staged batch over, as staged.
C29_StagedHandedOverAsStaged ==
    (Running /\ WholeBatches) =>
        \A options \in ReplayOptions, sink \in AllSinks :
            \A r \in {replayPending(Cur, options, sink, TRUE)} :
               /\ Len(r.out) <= Cardinality(ToResubmit(options))
               /\ \A k \in 1..Len(r.out) :
                     r.out[k].metadata.staged
                        = (/\ pendingMessages[Nth(ToResubmit(options), k)].batchInfo.staged
                           /\ ~options.committingStagedBatches)
               /\ (PassAdmitted(options, sink) /\ ~options.committingStagedBatches) =>
                     Cardinality({k \in 1..Len(r.out) : r.out[k].metadata.staged})
                        = Cardinality(StagedBatches)

\* A replay on a connection handed a staged batch over as staged: it is pending
\* again, staged and unsent, stamped with its batch id.
C29_Witness ==
    /\ op = "replayPendingStates" /\ err = "none"
    /\ connected /\ clientIdFromLastReplay = clientId
    /\ \E i \in 1..Len(pendingMessages) :
          /\ pendingMessages[i].batchInfo.staged
          /\ pendingMessages[i].batchInfo.batchStartCsn = 0 - 1
          /\ pendingMessages[i].opMetadata.batchId # NoBatchId

\* ---- local acks that nothing pending can answer: C30
\* C30: a local ack arriving when nothing is pending throws an assert, 0xa21
\* when it carries a batch start and 0x169 when it does not; a local ack that
\* carries a batch start while the front pending message is staged throws assert
\* 0xb85.  Either way no pending message is removed or stamped, nothing is added
\* to the saved ops and nothing is returned.
C30_UnanswerableAckFailsFast ==
    Running =>
        \A inbound \in AllLocalInbounds :
            \A r \in {processInbound(Cur, inbound, TRUE)} :
               /\ pendingMessages = <<>> =>
                     /\ r.err = (IF hasBatchStart(inbound) THEN "assert 0xa21"
                                 ELSE "assert 0x169")
                     /\ r.pm = <<>> /\ r.so = savedOps /\ r.ret = <<>>
               /\ (/\ pendingMessages # <<>>
                   /\ Head(pendingMessages).batchInfo.staged
                   /\ hasBatchStart(inbound)) =>
                     /\ r.err = "assert 0xb85"
                     /\ r.pm = pendingMessages /\ r.so = savedOps /\ r.ret = <<>>

\* A local batch start met a staged message in front of a sent one and was
\* refused.
C30_Witness ==
    /\ op = "processInboundMessages" /\ err = "assert 0xb85"
    /\ Len(pendingMessages) >= 2
    /\ pendingMessages[1].batchInfo.staged
    /\ ~pendingMessages[2].batchInfo.staged
    /\ pendingMessages[2].batchInfo.batchStartCsn = 1

\* ---- applying the stash to a detached document, empty batches: C31
\* C31: when applyStashedOp resolves while the document is not attached, the
\* entry it was called for is added to no queue if the metadata is undefined, and
\* the call throws the data-processing error carrying the entry otherwise; the
\* queues are as they were either way.  An empty-batch entry a call comes to is
\* pushed behind the pending queue with the emptyBatch marker before the call
\* awaits anything, and applyStashedOp is never awaited for one.
C31_DetachedNotQueuedEmptyQueued ==
    Running =>
        /\ \A k \in 1..Len(applying), localOpMetadata \in LocalMetas \cup {"undefined"} :
              \A r \in {stashResume(Cur, applying[k].nextMessage, localOpMetadata,
                                    FALSE, FALSE)} :
                 /\ r.pm = pendingMessages /\ r.im = initialMessages
                 /\ r.so = savedOps
                 /\ IF localOpMetadata = "undefined" THEN r.err = "none"
                    ELSE /\ r.err = ApplyStashedOpFailed
                         /\ r.tag = <<applying[k].nextMessage>>
        /\ \A k \in 1..Len(applying) : ~isEmptyBatchPendingMessage(applying[k].nextMessage)
        /\ \A seqNum \in AnySeqNums :
              (/\ initialMessages # <<>>
               /\ isEmptyBatchPendingMessage(Head(initialMessages))
               /\ seqNum \in {UndefinedNum, Head(initialMessages).referenceSequenceNumber}) =>
                 \A r \in {stashLoop(Cur, seqNum)} :
                    /\ Len(r.st.pm) > Len(pendingMessages)
                    /\ SubSeq(r.st.pm, 1, Len(pendingMessages)) = pendingMessages
                    /\ \A pushed \in {r.st.pm[Len(pendingMessages) + 1]} :
                          /\ pushed.content = Head(initialMessages).content
                          /\ pushed.localOpMetadata = EmptyBatchMarker
                          /\ pushed.runtimeOp = Head(initialMessages).runtimeOp
                    /\ \A i \in 1..Len(r.awaiting) :
                          ~isEmptyBatchPendingMessage(r.awaiting[i])

\* The stash was applied to a detached document: its empty batch is pending and
\* its other entry is in no queue.
C31_Witness ==
    /\ op = "applyStashedOpsAt" /\ err = "none"
    /\ applying = <<>> /\ initialMessages = <<>> /\ savedOps = <<>>
    /\ Len(pendingMessages) = 1
    /\ isEmptyBatchPendingMessage(pendingMessages[1])
    /\ pendingMessages[1].localOpMetadata = EmptyBatchMarker

\* ---- ignoreBatchId: C32
UsesBatchId(pendingMessage) == pendingMessage.batchInfo.ignoreBatchId # TRUE

\* C32: the k-th reSubmitBatch call of a replay of whole batches is given no
\* batch id when the first message of the k-th batch it resubmits has
\* ignoreBatchId, and the effective batch id of that message otherwise.  A
\* non-local inbound is compared with the pending queue as if the messages with
\* ignoreBatchId were not in it: it throws the forked-container error exactly
\* when it has a batch start whose effective batch id is that of the first of
\* the other messages, and never when every pending message has ignoreBatchId.
C32_IgnoredBatchIdNotUsed ==
    (Running /\ WholeBatches) =>
        /\ \A options \in ReplayOptions, sink \in AllSinks :
              \A r \in {replayPending(Cur, options, sink, TRUE)} :
                 \A k \in 1..Len(r.out) :
                    \A first \in {pendingMessages[Nth(ToResubmit(options), k)]} :
                       r.out[k].metadata.batchId
                          = (IF first.batchInfo.ignoreBatchId = TRUE THEN NoBatchId
                             ELSE getEffectiveBatchId(first))
        /\ \A inbound \in RemoteInbounds :
              \A r \in {processInbound(Cur, inbound, FALSE)},
                 using \in {SelectSeq(pendingMessages, UsesBatchId)} :
                 (r.err = ForkedContainer)
                    <=> (/\ hasBatchStart(inbound)
                         /\ using # <<>>
                         /\ getEffectiveBatchId(Head(using))
                               = getEffectiveBatchIdOfStart(inbound.batchStart))

\* A replay on a connection resubmitted a batch without batch id, its
\* ignoreBatchId kept, in front of one stamped with its batch id.
C32_Witness ==
    /\ op = "replayPendingStates" /\ err = "none"
    /\ connected /\ clientIdFromLastReplay = clientId
    /\ Len(pendingMessages) >= 2
    /\ pendingMessages[1].batchInfo.ignoreBatchId = TRUE
    /\ pendingMessages[1].opMetadata.batchId = NoBatchId
    /\ pendingMessages[Len(pendingMessages)].batchInfo.ignoreBatchId # TRUE
    /\ pendingMessages[Len(pendingMessages)].opMetadata.batchId # NoBatchId

\* ---- the replay loop, iteration by iteration: C33
\* A replayPendingStates call in progress, as the only element of applying:
\* its arguments, the locals of the loop (initialPendingMessagesCount,
\* remainingPendingMessagesCount, seenStagedBatch; inside the inner loop also
\* pendingMessage, batch and the metadata of the batch), the reSubmitBatch calls
\* it has made and the number of messages it has taken off the queue.
PassBegun(options, sink, st) ==
    [options |-> options, sink |-> sink,
     initialPendingMessagesCount |-> Len(st.pm),
     remainingPendingMessagesCount |-> Len(st.pm),
     seenStagedBatch |-> FALSE,
     collecting |-> FALSE, pendingMessage |-> <<>>, batch |-> <<>>, metadata |-> <<>>,
     out |-> <<>>, shifted |-> 0, ended |-> FALSE]

\* The checks and assignments before the loop.
replayBegin(st, options, sink) ==
    IF ~(sink.connected \/ options.committingStagedBatches) THEN Throw(st, "assert 0x172")
    ELSE IF ~options.committingStagedBatches /\ ~(st.lr # sink.clientId)
    THEN Throw(st, "assert 0x173")
    ELSE LET st1 == [st EXCEPT !.lr = sink.clientId]
         IN IF st1.im # <<>> THEN Throw(st1, "assert 0x174") ELSE st1

\* One iteration of the outer loop reading the length of the queue again.
replayIteration_Recount(st, pass) ==
    IF st.pm = <<>>
    THEN [st |-> [st EXCEPT !.so = <<>>], pass |-> [pass EXCEPT !.ended = TRUE]]
    ELSE
    LET shifted == Head(st.pm)
        st1 == [st EXCEPT !.pm = Tail(st.pm)]
        metadata == [batchId |-> IF shifted.batchInfo.ignoreBatchId THEN NoBatchId
                                 ELSE getEffectiveBatchId(shifted),
                     staged |-> shifted.batchInfo.staged,
                     squash |-> pass.options.squash]
        st2 == reSubmitBatch(st1, IF shifted.localOpMetadata = EmptyBatchMarker THEN <<>>
                                  ELSE <<PendingMessageResubmitData(shifted)>>,
                             metadata, pass.sink)
    IN [st |-> st2,
        pass |-> [pass EXCEPT !.remainingPendingMessagesCount = Len(st2.pm),
                              !.shifted = (pass.shifted + 1) % (MaxQueue + 2)]]

\* One iteration of the outer loop, up to its continue or to the inner loop; the
\* end of the call when the loop condition fails.
replayIteration(st, pass) ==
    IF ~(pass.remainingPendingMessagesCount > 0)
    THEN [st |-> [st EXCEPT !.so = <<>>], pass |-> [pass EXCEPT !.ended = TRUE]]
    ELSE
    LET shifted == Head(st.pm)
        st1 == [st EXCEPT !.pm = Tail(st.pm)]
        pass1 == [pass EXCEPT
                     !.remainingPendingMessagesCount = pass.remainingPendingMessagesCount - 1,
                     !.shifted = pass.shifted + 1]
        requeue == pass.options.committingStagedBatches /\ ~shifted.batchInfo.staged
        pendingMessage == IF pass.options.committingStagedBatches
                          THEN [shifted EXCEPT !.batchInfo.staged = FALSE]
                          ELSE shifted
        pass2 == [pass1 EXCEPT !.seenStagedBatch =
                                   pass.seenStagedBatch \/ pass.options.committingStagedBatches]
        batchMetadataFlag == pendingMessage.opMetadata.batch
        batchId == IF pendingMessage.batchInfo.ignoreBatchId THEN NoBatchId
                   ELSE getEffectiveBatchId(pendingMessage)
        metadata == [batchId |-> batchId, staged |-> pendingMessage.batchInfo.staged,
                     squash |-> pass.options.squash]
    IN IF requeue
       THEN IF pass.seenStagedBatch
            THEN [st |-> Throw(st1, "assert 0xb86"), pass |-> pass1]
            ELSE [st |-> [st1 EXCEPT !.pm = Append(st1.pm, shifted)], pass |-> pass1]
       ELSE IF batchMetadataFlag = "false"
       THEN [st |-> Throw(st1, "assert 0x41b"), pass |-> pass2]
       ELSE IF pendingMessage.localOpMetadata = EmptyBatchMarker
       THEN [st |-> reSubmitBatch(st1, <<>>, metadata, pass.sink), pass |-> pass2]
       ELSE IF ~hasTypicalRuntimeOp(pendingMessage)
       THEN [st |-> Throw(st1, "assert 0xb87"), pass |-> pass2]
       ELSE IF batchMetadataFlag = "undefined"
       THEN [st |-> reSubmitBatch(st1, <<PendingMessageResubmitData(pendingMessage)>>,
                                  metadata, pass.sink),
             pass |-> pass2]
       ELSE IF ~(pass2.remainingPendingMessagesCount > 0)
       THEN [st |-> Throw(st1, "assert 0x554"), pass |-> pass2]
       ELSE [st |-> st1,
             pass |-> [pass2 EXCEPT !.collecting = TRUE,
                                    !.pendingMessage = <<pendingMessage>>,
                                    !.batch = <<>>,
                                    !.metadata = <<metadata>>]]

\* One iteration of the inner loop; the reSubmitBatch call behind it when the
\* loop is left.
collectIteration(st, pass) ==
    LET pendingMessage == pass.pendingMessage[1]
        handOver(batch) ==
            [st |-> reSubmitBatch(st, batch, pass.metadata[1], pass.sink),
             pass |-> [pass EXCEPT !.collecting = FALSE, !.pendingMessage = <<>>,
                                   !.batch = <<>>, !.metadata = <<>>]]
    IN IF ~(pass.remainingPendingMessagesCount >= 0) THEN handOver(pass.batch)
       ELSE IF ~hasTypicalRuntimeOp(pendingMessage)
       THEN [st |-> Throw(st, "assert 0xb88"), pass |-> pass]
       ELSE LET batch1 == Append(pass.batch, PendingMessageResubmitData(pendingMessage))
            IN IF pendingMessage.opMetadata.batch = "false" THEN handOver(batch1)
               ELSE IF ~(pass.remainingPendingMessagesCount > 0)
               THEN [st |-> Throw(st, "assert 0x555"), pass |-> pass]
               ELSE LET next == Head(st.pm)
                        st1 == [st EXCEPT !.pm = Tail(st.pm)]
                        pass1 == [pass EXCEPT
                                     !.remainingPendingMessagesCount =
                                         pass.remainingPendingMessagesCount - 1,
                                     !.shifted = pass.shifted + 1,
                                     !.pendingMessage = <<next>>,
                                     !.batch = batch1]
                    IN IF next.opMetadata.batch = "true"
                       THEN [st |-> Throw(st1, "assert 0x556"), pass |-> pass1]
                       ELSE [st |-> st1, pass |-> pass1]

\* No replayPendingStates call is in progress.
Idle == applying = <<>>

InPass == applying # <<>> /\ err = "none"

\* replayPendingStates is called and gets to its loop, or throws before.
PassBegins ==
    /\ Running /\ Idle
    /\ \E options \in ReplayOptions, sink \in Sinks(SinkModes, {1}) :
          LET st == replayBegin(Cur, options, sink)
          IN /\ Commit("replayPendingStates", st)
             /\ applying' = IF st.err # "none" THEN <<>>
                            ELSE <<PassBegun(options, sink, st)>>
             /\ UNCHANGED Env

PassStepped(r) ==
    /\ Commit("replayPendingStates", r.st)
    /\ applying' = IF r.pass.ended THEN <<>> ELSE <<[r.pass EXCEPT !.out = r.st.out]>>
    /\ UNCHANGED Env

\* The call in progress runs one iteration of its outer loop, or ends.
PassIterates ==
    /\ Running /\ InPass /\ ~applying[1].collecting
    /\ PassStepped(replayIteration([Cur EXCEPT !.out = applying[1].out], applying[1]))

\* The call in progress runs one iteration of its inner loop.
PassCollects ==
    /\ Running /\ InPass /\ applying[1].collecting
    /\ PassStepped(collectIteration([Cur EXCEPT !.out = applying[1].out], applying[1]))

\* Between calls: batches are flushed unsent, the container connects.
PassFlush == Idle /\ Flush(SameOps, BatchLens, {0}, BOOLEAN, {UndefinedNum}, {FALSE})
PassConnect == Idle /\ FirstConnect

NextPass ==
    \/ PassFlush
    \/ PassConnect
    \/ PassBegins
    \/ PassIterates
    \/ PassCollects

\* replayPendingStates is synchronous: once called it runs on.
SpecPass ==
    /\ Init /\ [][NextPass]_vars
    /\ WF_vars(PassIterates) /\ WF_vars(PassCollects)



\* C33: a replayPendingStates call that has got to its loop ends, by returning or
\* by throwing, in committing and in non-committing mode, whatever the sink
\* pushes on each reSubmitBatch call.  While it runs, the number of messages it
\* has taken off the queue and the number it is still to take add up to the
\* number of messages that were pending when it was called, and the messages
\* still to take are in the queue.
C33_PassTerminates ==
    /\ [](InPass =>
            /\ applying[1].shifted + applying[1].remainingPendingMessagesCount
                  = applying[1].initialPendingMessagesCount
            /\ applying[1].remainingPendingMessagesCount >= 0
            /\ applying[1].remainingPendingMessagesCount <= Len(pendingMessages))
    /\ \A committing \in BOOLEAN :
          (InPass /\ applying[1].options.committingStagedBatches = committing)
             ~> (Idle \/ err # "none")

\* A pass got to its end although the sink pushed every batch again: its
\* messages are pending anew on the connection.
C33_Witness ==
    /\ op = "replayPendingStates" /\ err = "none" /\ Idle
    /\ connected /\ clientIdFromLastReplay = clientId
    /\ Len(pendingMessages) = MaxQueue
    /\ \A i \in 1..Len(pendingMessages) : pendingMessages[i].opMetadata.batchId # NoBatchId

\* ---- getLocalState: C34
\* A rehydrated manager whose state is asked for while the stash is applied and
\* its messages are acked.
\* The ack of the front pending message, sequenced behind the acks before it.
AckFront ==
    /\ Running /\ connected /\ pendingMessages # <<>>
    /\ processInboundMessages(
          InboundNextBatchMessage(EchoMessage(Head(pendingMessages), Len(savedOps) + 1)),
          TRUE)

NextLocalState ==
    \/ ApplyAllStashed
    \/ ApplyStashedSettles
    \/ AckFront
    \/ GetLocalState
    \/ FirstConnect

SpecLocalState == InitRehydrated /\ [][NextLocalState]_vars

StashOlderThanSnapshot == "LoggingError: trying to stash ops older than our latest snapshot"

\* The positions of the saved ops sequenced after the snapshot, after 0 when no
\* snapshot sequence number is given.
SavedAfter(snapshotSequenceNumber) ==
    {i \in 1..Len(savedOps) :
        savedOps[i].sequenceNumber
           > (IF snapshotSequenceNumber = UndefinedNum THEN 0 ELSE snapshotSequenceNumber)}

\* C34: getLocalState changes no queue and not the saved ops.  It fails assert
\* 0x2e9 while the stash queue is not empty, and throws when a snapshot sequence
\* number is given and a pending message has a lower referenceSequenceNumber.
\* Otherwise it returns the saved ops sequenced after the snapshot (after 0 when
\* none is given) in their order, followed by every pending message in queue
\* order with runtimeOp and localOpMetadata undefined.
C34_LocalStateIsSavedThenPending ==
    Running =>
        \A snapshotSequenceNumber \in SnapshotSeqNums :
            \A g \in {localState(Cur, snapshotSequenceNumber)},
               keep \in {SavedAfter(snapshotSequenceNumber)} :
               /\ g.pm = pendingMessages /\ g.so = savedOps /\ g.im = initialMessages
               /\ IF initialMessages # <<>> THEN g.err = "assert 0x2e9"
                  ELSE IF /\ snapshotSequenceNumber # UndefinedNum
                          /\ \E i \in 1..Len(pendingMessages) :
                                pendingMessages[i].referenceSequenceNumber
                                   < snapshotSequenceNumber
                  THEN g.err = StashOlderThanSnapshot
                  ELSE /\ g.err = "none"
                       /\ Len(g.ret) = Cardinality(keep) + Len(pendingMessages)
                       /\ \A k \in 1..Cardinality(keep) : g.ret[k] = savedOps[Nth(keep, k)]
                       /\ \A i \in 1..Len(pendingMessages) :
                             g.ret[Cardinality(keep) + i]
                                = [pendingMessages[i] EXCEPT !.runtimeOp = UndefinedOp,
                                                             !.localOpMetadata = "undefined"]

\* The state was given with two acks saved and a message of the stash pending.
C34_Witness ==
    /\ op = "getLocalState" /\ err = "none"
    /\ Len(savedOps) = 2 /\ savedOps[2].sequenceNumber = 2
    /\ pendingMessages # <<>>

\* ---- pendingMessagesCount while the stash is applied: C35
\* C35 as stated: while an applyStashedOp is awaited, the entry it was called
\* for is counted by pendingMessagesCount and hasPendingMessages() is true.
C35_AsStated ==
    (Running /\ applying # <<>>) =>
        /\ pendingMessagesCount(Cur)
              >= Len(pendingMessages) + Len(initialMessages) + Len(applying)
        /\ hasPendingMessages(Cur)

\* C35: pendingMessagesCount is the number of entries of the pending queue and
\* of the stash queue, and hasPendingMessages() is true exactly when one of them
\* is not empty; so it is true while the stash queue is not empty.  An entry
\* whose applyStashedOp is awaited is in neither queue and is not counted: a call
\* that gets to an await leaves the count one lower than it found it, and the
\* count is back when applyStashedOp has resolved for an attached document.
C35_CountsTheTwoQueues ==
    Running =>
        /\ pendingMessagesCount(Cur) = Len(pendingMessages) + Len(initialMessages)
        /\ hasPendingMessages(Cur) <=> (pendingMessages # <<>> \/ initialMessages # <<>>)
        /\ initialMessages # <<>> => hasPendingMessages(Cur)
        /\ \A seqNum \in AnySeqNums :
              \A r \in {stashLoop(Cur, seqNum)} :
                 r.st.err = "none" =>
                    pendingMessagesCount(r.st) = pendingMessagesCount(Cur) - Len(r.awaiting)
        /\ \A k \in 1..Len(applying), settle \in AttachedSettles :
              pendingMessagesCount(stashResume(Cur, applying[k].nextMessage,
                                               settle.localOpMetadata, FALSE, TRUE))
                 = pendingMessagesCount(Cur) + 1

\* The only stash entry is being applied: both queues are empty.
C35_Witness ==
    /\ op = "applyStashedOpsAt" /\ err = "none"
    /\ Len(applying) = 1
    /\ pendingMessages = <<>> /\ initialMessages = <<>>
    /\ savedOps = <<>>

\* ---- the saved ops: C36
\* C36: every saved op has a sequence number and neither runtimeOp nor
\* localOpMetadata, so getLocalState never fails assert 0x97c.  A step changes
\* the saved ops only by emptying them or, processing acks, by appending the
\* messages it takes off the front of the pending queue, in queue order: the
\* saved ops are in the order their acks were processed.
C36_SavedOpsStampedInAckOrder ==
    /\ [](/\ \A i \in 1..Len(savedOps) :
                /\ savedOps[i].sequenceNumber # UndefinedNum
                /\ savedOps[i].runtimeOp = UndefinedOp
                /\ savedOps[i].localOpMetadata = "undefined"
          /\ \A snapshotSequenceNumber \in SnapshotSeqNums :
                localState(Cur, snapshotSequenceNumber).err # "assert 0x97c")
    /\ [][\/ savedOps' = savedOps
          \/ savedOps' = <<>>
          \/ /\ op' = "processInboundMessages"
             /\ Len(savedOps') > Len(savedOps)
             /\ SubSeq(savedOps', 1, Len(savedOps)) = savedOps
             /\ Len(savedOps') - Len(savedOps) = Len(pendingMessages) - Len(pendingMessages')
             /\ \A k \in 1..(Len(savedOps') - Len(savedOps)) :
                   /\ savedOps'[Len(savedOps) + k].content = pendingMessages[k].content
                   /\ savedOps'[Len(savedOps) + k].batchInfo = pendingMessages[k].batchInfo]_vars

\* Two acks were processed one after the other and the state was asked for.
C36_Witness ==
    /\ op = "getLocalState" /\ err = "none"
    /\ Len(savedOps) = 2
    /\ savedOps[1].sequenceNumber # UndefinedNum
    /\ savedOps[2].batchInfo = savedOps[1].batchInfo

\* ---- onFlushBatch of a staged batch: C37
\* C37: every pending message onFlushBatch creates with staged = true has
\* batchStartCsn = -1, and an onFlushBatch given a client sequence number
\* together with staged = true fails (assert 0xb84) and leaves the pending
\* queue, the stash queue and Saved Ops as they were.
C37_StagedNeverRecordedAsSent ==
    /\ \A i \in 1..Len(pendingMessages) :
          pendingMessages[i].batchInfo.staged
             => pendingMessages[i].batchInfo.batchStartCsn = 0 - 1
    /\ Running =>
          \A batch \in AnyFlushBatches, csn \in {UndefinedNum} \cup CSNs,
             ignoreBatchId \in BOOLEAN :
              \A r \in {flushBatch(Cur, batch, csn, TRUE, ignoreBatchId, clientId)} :
                 IF csn # UndefinedNum
                 THEN /\ r.err = "assert 0xb84"
                      /\ r.pm = pendingMessages
                      /\ r.im = initialMessages /\ r.so = savedOps
                 ELSE /\ r.err = "none"
                      /\ Len(r.pm) = Len(pendingMessages) + Len(batch)
                      /\ \A i \in (Len(pendingMessages) + 1)..Len(r.pm) :
                            /\ r.pm[i].batchInfo.staged
                            /\ r.pm[i].batchInfo.batchStartCsn = 0 - 1

\* A staged flush with a CSN was rejected on a connection, behind a staged
\* message and a sent one.
C37_Witness ==
    /\ op = "onFlushBatch" /\ err = "assert 0xb84"
    /\ clientId # NoClient
    /\ Len(pendingMessages) = 2
    /\ pendingMessages[1].batchInfo.staged
    /\ pendingMessages[1].batchInfo.batchStartCsn = 0 - 1
    /\ ~pendingMessages[2].batchInfo.staged
    /\ pendingMessages[2].batchInfo.batchStartCsn = 1

\* ---- processInboundMessages of a non-local inbound: C38
\* The batches of other clients arrive while the stash is applied and the
\* applied messages are acked.
NextRemote ==
    \/ ApplyAllStashed
    \/ ApplyStashedSettles
    \/ AckFront
    \/ RemoteInbound
    \/ FirstConnect

SpecRemote == InitRehydrated /\ [][NextRemote]_vars

\* C38: processInboundMessages with local = false leaves the pending queue, the
\* stash queue and Saved Ops as they were, whether it returns or throws; it
\* throws nothing but the forked-container error, and what it returns is the
\* inbound's messages in order, each with no localOpMetadata.
C38_RemoteInboundChangesNothing ==
    Running =>
        \A inbound \in RemoteInbounds :
            \A r \in {processInbound(Cur, inbound, FALSE)} :
               /\ r.pm = pendingMessages
               /\ r.im = initialMessages
               /\ r.so = savedOps
               /\ r.lr = clientIdFromLastReplay
               /\ r.err \in {"none", ForkedContainer}
               /\ r.err = "none" =>
                     r.ret = [k \in 1..Len(inbound.messages) |->
                                 [message |-> inbound.messages[k],
                                  localOpMetadata |-> "undefined"]]
               /\ r.err # "none" => r.ret = <<>>

\* A non-local inbound threw the fork error with messages in the pending queue,
\* in the stash queue and in Saved Ops.
C38_Witness ==
    /\ op = "processInboundMessages" /\ err = ForkedContainer
    /\ pendingMessages # <<>>
    /\ initialMessages # <<>>
    /\ savedOps # <<>>
====
